---------------------------- MODULE Spec2Model ----------------------------
(***************************************************************************)
(* A model of the intent-driven dispatch pipeline of the facilitator bot   *)
(* (app/services/openai_service.py): generate_response and the helpers it  *)
(* calls (generate_meet_link, extract_event_details,                       *)
(* schedule_google_calendar_event, upload_file_response).                  *)
(*                                                                         *)
(* Python strings are TLA+ strings (TLC evaluates Len, \o and SubSeq on    *)
(* them).  TLA+ strings are ASCII, so the emoji and the typographic dash   *)
(* and apostrophe of the response texts are left out of the literals; the  *)
(* rest of each literal is the source's.  Python's None is NoneStr where a *)
(* string may stand and the empty tuple where a record may stand.          *)
(***************************************************************************)
EXTENDS Integers, Sequences, FiniteSets, TLC

(***************************************************************************)
(* Bounds of the model.                                                    *)
(***************************************************************************)
\* the longest pool file of an initial state, in lines
MaxPoolLines == 2
\* the number of generate_meet_link calls that return in a run
MaxIssues == 3
\* characters the file object buffers before it writes them through
BufferChars == 4
\* how many exchanges the conversation store takes
MaxExchanges == 2

(***************************************************************************)
(* Python values.                                                          *)
(***************************************************************************)
NoneStr == "<None>"
None == << >>
Some(r) == << r >>
\* str(v) as an f-string formats it
StrOf(v) == IF v = NoneStr THEN "None" ELSE v

(***************************************************************************)
(* str methods, character by character.                                    *)
(***************************************************************************)
Whitespace == {" ", "\n", "\t", "\r"}
Digits == {"0", "1", "2", "3", "4", "5", "6", "7", "8", "9"}
CharAt(s, i) == SubSeq(s, i, i)

RECURSIVE LStrip(_)
LStrip(s) ==
    IF s = "" THEN ""
    ELSE IF Head(s) \in Whitespace THEN LStrip(Tail(s)) ELSE s

RECURSIVE RStrip(_)
RStrip(s) ==
    IF s = "" THEN ""
    ELSE IF CharAt(s, Len(s)) \in Whitespace
         THEN RStrip(SubSeq(s, 1, Len(s) - 1))
         ELSE s

\* a strip that leaves the trailing white space
StripLeading(s) == LStrip(s)

\* str.strip()
Strip(s) == RStrip(LStrip(s))

LowerChar(c) ==
    CASE c = "A" -> "a" [] c = "B" -> "b" [] c = "C" -> "c" [] c = "D" -> "d"
      [] c = "E" -> "e" [] c = "F" -> "f" [] c = "G" -> "g" [] c = "H" -> "h"
      [] c = "I" -> "i" [] c = "J" -> "j" [] c = "K" -> "k" [] c = "L" -> "l"
      [] c = "M" -> "m" [] c = "N" -> "n" [] c = "O" -> "o" [] c = "P" -> "p"
      [] c = "Q" -> "q" [] c = "R" -> "r" [] c = "S" -> "s" [] c = "T" -> "t"
      [] c = "U" -> "u" [] c = "V" -> "v" [] c = "W" -> "w" [] c = "X" -> "x"
      [] c = "Y" -> "y" [] c = "Z" -> "z" [] OTHER -> c

RECURSIVE Lower(_)
\* str.lower()
Lower(s) == IF s = "" THEN "" ELSE LowerChar(Head(s)) \o Lower(Tail(s))

\* the elements of a sequence
SeqRange(q) == {q[k] : k \in 1..Len(q)}

\* s[i:] starts with lit (i is 1-based)
StartsAt(s, i, lit) ==
    /\ i >= 1
    /\ i + Len(lit) - 1 <= Len(s)
    /\ SubSeq(s, i, i + Len(lit) - 1) = lit

\* the text from position i to the end
From(s, i) == IF i > Len(s) THEN "" ELSE SubSeq(s, i, Len(s))

RECURSIVE SplitLines(_, _)
\* the lines a text file object iterates over: cut after each newline,
\* cur being the line collected so far
SplitLines(s, cur) ==
    IF s = "" THEN (IF cur = "" THEN << >> ELSE << cur >>)
    ELSE IF Head(s) = "\n"
         THEN << cur \o "\n" >> \o SplitLines(Tail(s), "")
         ELSE SplitLines(Tail(s), cur \o Head(s))

RECURSIVE JoinLines(_)
\* lines joined by newlines
JoinLines(ls) ==
    IF ls = << >> THEN ""
    ELSE IF Len(ls) = 1 THEN ls[1]
    ELSE ls[1] \o "\n" \o JoinLines(Tail(ls))


(***************************************************************************)
(* Exceptions.  An external call either returns or raises an exception of  *)
(* one of these classes; a raised exception goes to the first except       *)
(* clause of the enclosing try statement whose class it is an instance of, *)
(* and leaves the function when there is none.                             *)
(***************************************************************************)
ExcClasses ==
    {"FileNotFoundError", "PermissionError", "OSError", "HttpError",
     "ValueError", "IndexError", "APIError", "RequestException", "Timeout",
     "ConnectionError", "HTTPError", "TypeError", "MissingSchema"}

\* isinstance(e, cls) for an exception e of class c (IOError is OSError)
IsInstance(c, cls) ==
    \/ cls = "Exception"
    \/ cls = c
    \/ cls = "OSError" /\ c \in {"FileNotFoundError", "PermissionError"}
    \/ cls = "RequestException"
           /\ c \in {"Timeout", "ConnectionError", "HTTPError", "MissingSchema"}

\* str(e): the exception's own text
ExcText(c) == c \o ": internal detail"

RECURSIVE FirstMatch(_, _)
\* the first clause <<class, target>> of a try statement's except clauses
\* that catches c, as its target; "Propagate" when no clause does
FirstMatch(clauses, c) ==
    IF clauses = << >> THEN "Propagate"
    ELSE IF IsInstance(c, clauses[1][1]) THEN clauses[1][2]
    ELSE FirstMatch(Tail(clauses), c)

\* generate_response, the try around the intent call
IntentTry == << <<"Exception", "GR_intent_error">> >>
\* generate_response, the try around the folder call
FolderTry == << <<"Exception", "GR_folder_error">> >>
\* upload_file_response
UploadTry == << <<"Exception", "UP_error">> >>
\* extract_event_details
ExtractTry == << <<"Exception", "EX_error">> >>
\* schedule_google_calendar_event, the outer try
ScheduleTry ==
    << <<"HttpError", "SC_http_error">>, <<"Exception", "SC_error">> >>
\* download_whatsapp_document
DownloadTry == << <<"Exception", "DL_error">> >>
\* send_message
SendTry ==
    << <<"Timeout", "SM_timeout">>, <<"RequestException", "SM_failed">> >>
\* the parse's try with a clause that goes on to the insert
ParseTryGoesOn == << <<"Exception", "SC_insert">> >>

\* schedule_google_calendar_event, the try around the date and time parse
ParseTry == << <<"Exception", "SC_parse_error">> >>
\* the pool try with its first except clause alone
PoolTryNotFoundOnly == << <<"FileNotFoundError", "ML_fallback">> >>

\* generate_meet_link, the try around the pool file
PoolTry ==
    << <<"FileNotFoundError", "ML_fallback">>,
       <<"PermissionError", "ML_fallback">>,
       <<"OSError", "ML_fallback">>,
       <<"Exception", "ML_fallback">> >>
\* the fallback's try without its except Exception clause
FallbackTryHttpOnly == << <<"HttpError", "ML_http_error">> >>

\* generate_meet_link, the try around the fallback event
FallbackTry ==
    << <<"HttpError", "ML_http_error">>, <<"Exception", "ML_error">> >>

(***************************************************************************)
(* The pool file: a text of newline-ended lines, or NoneStr when the file  *)
(* does not exist.  A file object has a position and a write buffer; what  *)
(* it writes lands at its position, and a gap a truncation by another file *)
(* object left before the position reads as zero bytes (HoleChar).         *)
(***************************************************************************)
HoleChar == "~"

RECURSIVE Holes(_)
Holes(n) == IF n <= 0 THEN "" ELSE HoleChar \o Holes(n - 1)

\* the file after data is written at position pos (0-based)
WriteAt(file, pos, data) ==
    LET padded == IF Len(file) < pos THEN file \o Holes(pos - Len(file)) ELSE file
        before == SubSeq(padded, 1, pos)
        after == From(padded, pos + Len(data) + 1)
    IN  before \o data \o after

RECURSIVE NonBlankStripped(_)
\* [line.strip() for line in f if line.strip()]
NonBlankStripped(lines) ==
    IF lines = << >> THEN << >>
    ELSE IF Strip(lines[1]) = "" THEN NonBlankStripped(Tail(lines))
    ELSE << Strip(lines[1]) >> \o NonBlankStripped(Tail(lines))

\* the links a pool file holds
LinksOf(file) ==
    IF file = NoneStr THEN << >> ELSE NonBlankStripped(SplitLines(file, ""))

\* links.pop(): the last link taken
PopLast(ls) == [link |-> ls[Len(ls)], rest |-> SubSeq(ls, 1, Len(ls) - 1)]

\* links[0]: the first link taken and left in the list
PopKeep(ls) == [link |-> Head(ls), rest |-> ls]

\* links.pop(0): the link taken and the links left
PopFirst(ls) == [link |-> Head(ls), rest |-> Tail(ls)]

\* the lines a pool file of an initial state is made of
PoolLines == {"A", " B ", ""}

RECURSIVE LineSeqs(_)
\* the sequences of at most n lines
LineSeqs(n) ==
    IF n = 0 THEN {<< >>}
    ELSE LET shorter == LineSeqs(n - 1)
         IN  shorter \cup
                 {Append(ls, l) : ls \in {x \in shorter : Len(x) = n - 1},
                                  l \in PoolLines}

\* the pool files of the initial states
PoolFiles == {NoneStr} \cup {JoinLines(ls) : ls \in LineSeqs(MaxPoolLines)}

(***************************************************************************)
(* The state.  Procs are the invocations that may be in flight; each has   *)
(* its position pc and the local variables of the functions it is in.      *)
(***************************************************************************)
Procs == {1, 2}

\* the senders
Users == {"919800000001", "919800000002"}

VARIABLES
    poolFile,         \* the text of the pool file, NoneStr when it is absent
    pc,               \* pc[p]: where invocation p is
    caller,           \* caller[p]: who called generate_meet_link
    local_file_path,  \* generate_response's argument
    intent_response,  \* the content of generate_response's intent_response
    intent,           \* generate_response's intent
    folder_id,        \* generate_response's folder_id
    calls,            \* calls[p]: the external calls made for this message
    response,         \* what generate_response returned
    responded,        \* how many times it returned for this message
    fh,               \* generate_meet_link's file object: position, buffer
    links,            \* generate_meet_link's links, then the ones to write
    link,             \* generate_meet_link's link
    meet_link,        \* what generate_meet_link returned, and from where
    extracted_text,   \* extract_event_details's extracted_text
    event_details,    \* what extract_event_details returned
    event,            \* schedule_google_calendar_event's event body
    scheduled_event,  \* what schedule_google_calendar_event returned
    uploaded,         \* the metadata of the upload request
    failed,           \* failed[p]: the failures met handling this message
    pool0,            \* the pool file of the initial state
    poolAtReceive,    \* the pool file when this message came in
    issued,           \* how many generate_meet_link calls have returned
    storeFault,       \* whether a pool file operation has raised
    raced,            \* whether a call read the pool file while another
                      \* call was between its read and its close
    wa_id,            \* the sender's id
    name,             \* the sender's profile name
    message_body,     \* the text of the inbound message
    message,          \* process_whatsapp_message's message
    document,         \* download_whatsapp_document's argument
    media_url,        \* download_whatsapp_document's media_url
    trace,            \* trace[p]: the requests and the pipeline calls of
                      \* process_whatsapp_message, in order
    threads,          \* the conversation store: the history kept per sender
    thread,           \* the history the conversational fallback works on
    poolOther,        \* the pool file of the other of two runs compared
    turn              \* which of the two runs poolFile belongs to

vars ==
    << poolFile, pc, caller, local_file_path, intent, folder_id, calls,
       response, responded, fh, links, link, meet_link, event_details, event,
       scheduled_event, uploaded, failed, pool0, poolAtReceive, issued,
       storeFault, raced, intent_response, extracted_text, wa_id, name,
       message_body, message, document, media_url, trace, threads, thread,
       poolOther, turn >>

\* the variables of generate_meet_link and of the pool
meetVars ==
    << poolFile, caller, fh, links, link, meet_link, issued, storeFault, raced >>
\* the variables of the calendar branch
calendarVars == << event_details, event, scheduled_event >>
\* the inbound message as the webhook hands it on, and the conversation
\* store
inboundVars ==
    << wa_id, name, message_body, message, document, media_url, trace, threads,
       thread >>
\* the bookkeeping of two runs set side by side
pairVars == << poolOther, turn >>
\* the variables no step of generate_response changes
frameVars == << pool0, poolAtReceive, inboundVars, pairVars >>
\* the replies of the language model as the functions hold them
replyVars == << intent_response, extracted_text >>

Quiescent == {"Idle", "Responded", "Raised", "Returned"}

ClosedFile == [pos |-> 0, buf |-> "", next |-> 1]

\* the state before any call, with one of these pool files
InitWith(files) ==
    /\ poolFile \in files
    /\ pool0 = poolFile
    /\ pc = [p \in Procs |-> "Idle"]
    /\ caller = [p \in Procs |-> "none"]
    /\ local_file_path = [p \in Procs |-> NoneStr]
    /\ intent_response = [p \in Procs |-> NoneStr]
    /\ extracted_text = [p \in Procs |-> NoneStr]
    /\ intent = [p \in Procs |-> NoneStr]
    /\ folder_id = [p \in Procs |-> NoneStr]
    /\ calls = [p \in Procs |-> << >>]
    /\ response = [p \in Procs |-> NoneStr]
    /\ responded = [p \in Procs |-> 0]
    /\ fh = [p \in Procs |-> ClosedFile]
    /\ links = [p \in Procs |-> << >>]
    /\ link = [p \in Procs |-> NoneStr]
    /\ meet_link = [p \in Procs |-> [src |-> "unset", text |-> NoneStr]]
    /\ event_details = [p \in Procs |-> None]
    /\ event = [p \in Procs |-> None]
    /\ scheduled_event = [p \in Procs |-> None]
    /\ uploaded = [p \in Procs |-> None]
    /\ failed = [p \in Procs |-> {}]
    /\ poolAtReceive = [p \in Procs |-> NoneStr]
    /\ issued = 0
    /\ storeFault = FALSE
    /\ raced = FALSE
    /\ wa_id = [p \in Procs |-> NoneStr]
    /\ name = [p \in Procs |-> NoneStr]
    /\ message_body = [p \in Procs |-> NoneStr]
    /\ message = [p \in Procs |-> None]
    /\ document = [p \in Procs |-> None]
    /\ media_url = [p \in Procs |-> NoneStr]
    /\ trace = [p \in Procs |-> << >>]
    /\ threads = [u \in Users |-> << >>]
    /\ thread = [p \in Procs |-> << >>]
    /\ poolOther = poolFile
    /\ turn = 1

Init == InitWith(PoolFiles)

(***************************************************************************)
(* Steps shared by the functions.                                          *)
(***************************************************************************)
Goto(p, label) == pc' = [pc EXCEPT ![p] = label]
Called(p, site) == calls' = [calls EXCEPT ![p] = Append(@, site)]
Failed(p, what) == failed' = [failed EXCEPT ![p] = @ \cup {what}]

\* a return statement of generate_response
Return(p, text) ==
    /\ response' = [response EXCEPT ![p] = text]
    /\ responded' = [responded EXCEPT ![p] = @ + 1]
    /\ Goto(p, "Responded")

\* an exception of class c raised under the except clauses `clauses`: to the
\* clause that catches it, or out of generate_response (no call of a helper
\* is inside a try statement of generate_response)
Raise(p, clauses, c) ==
    LET target == FirstMatch(clauses, c)
    IN  Goto(p, IF target = "Propagate" THEN "Raised" ELSE target)

(***************************************************************************)
(* generate_response.                                                      *)
(***************************************************************************)
\* the attachment paths of the inbound messages
FilePaths == {NoneStr, "/tmp/notes.txt", "/tmp/DAA.PDF"}

\* what the model answers to the intent prompt
IntentReplies ==
    {"meet", "calendar", "upload", "feedback", " Meet\n", "UPLOAD",
     "\tFeedBack ", "", "chat", "Calendar."}

\* the classes the language-model client raises
OpenAIRaises == {"APIError"}

CouldNotDetermine == "Could not determine the intent of your message."
ThankYou == "Understood-thank you for your feedback. We'll keep improving!"
NoFile == "No file available for upload. Please attach a file."
CouldNotExtract ==
    "Could not extract valid event details. Please provide a clear date for the reminder."
FailedToSchedule ==
    "Failed to schedule the event in Google Calendar. Please try again."
DidNotUnderstand ==
    "Sorry, I did not understand your request. Please try again with a valid instruction."

\* a call of generate_response with an attachment path: the locals of the
\* last message are gone
EnterWith(p, path) ==
    /\ local_file_path' = [local_file_path EXCEPT ![p] = path]
    /\ Goto(p, "GR_classify")
    /\ caller' = [caller EXCEPT ![p] = "none"]
    /\ intent_response' = [intent_response EXCEPT ![p] = NoneStr]
    /\ extracted_text' = [extracted_text EXCEPT ![p] = NoneStr]
    /\ intent' = [intent EXCEPT ![p] = NoneStr]
    /\ folder_id' = [folder_id EXCEPT ![p] = NoneStr]
    /\ calls' = [calls EXCEPT ![p] = << >>]
    /\ response' = [response EXCEPT ![p] = NoneStr]
    /\ responded' = [responded EXCEPT ![p] = 0]
    /\ fh' = [fh EXCEPT ![p] = ClosedFile]
    /\ links' = [links EXCEPT ![p] = << >>]
    /\ link' = [link EXCEPT ![p] = NoneStr]
    /\ meet_link' = [meet_link EXCEPT ![p] = [src |-> "unset", text |-> NoneStr]]
    /\ event_details' = [event_details EXCEPT ![p] = None]
    /\ event' = [event EXCEPT ![p] = None]
    /\ scheduled_event' = [scheduled_event EXCEPT ![p] = None]
    /\ uploaded' = [uploaded EXCEPT ![p] = None]
    /\ failed' = [failed EXCEPT ![p] = {}]
    /\ poolAtReceive' = [poolAtReceive EXCEPT ![p] = poolFile]
    /\ UNCHANGED << poolFile, pool0, issued, storeFault, raced, pairVars >>

\* a call of generate_response by itself
Enter(p) ==
    /\ \E path \in FilePaths : EnterWith(p, path)
    /\ UNCHANGED inboundVars

\* one inbound message at a time: the next one is taken up when the last
\* one has been answered
Receive(p) ==
    /\ \A q \in Procs : pc[q] \in Quiescent
    /\ \A q \in Procs : q < p => pc[q] \notin Quiescent
    /\ issued < MaxIssues
    /\ Enter(p)

\* the intent call and the normalisation of its answer
ClassifyIntent(p) ==
    /\ pc[p] = "GR_classify"
    /\ Called(p, "intent")
    /\ \/ \E c \in OpenAIRaises :
              /\ Raise(p, IntentTry, c)
              /\ Failed(p, "intent")
              /\ UNCHANGED << intent_response, intent >>
       \/ \E reply \in IntentReplies :
              /\ intent_response' = [intent_response EXCEPT ![p] = reply]
              /\ intent' = [intent EXCEPT ![p] = Lower(Strip(reply))]
              /\ Goto(p, "GR_dispatch")
              /\ UNCHANGED failed
    /\ UNCHANGED << local_file_path, folder_id, response, responded, uploaded >>
    /\ UNCHANGED << meetVars, calendarVars, frameVars, extracted_text >>

\* an except clause that goes on with a default intent
IntentErrorGuess(p) ==
    /\ pc[p] = "GR_intent_error"
    /\ intent' = [intent EXCEPT ![p] = "meet"]
    /\ Goto(p, "GR_dispatch")
    /\ UNCHANGED << local_file_path, folder_id, calls, response, responded,
                    uploaded, failed >>
    /\ UNCHANGED << meetVars, calendarVars, frameVars, replyVars >>

\* an except clause that returns the fallback's text
IntentErrorSameText(p) ==
    /\ pc[p] = "GR_intent_error"
    /\ Return(p, DidNotUnderstand)
    /\ UNCHANGED << local_file_path, intent, folder_id, calls, uploaded, failed >>
    /\ UNCHANGED << meetVars, calendarVars, frameVars, replyVars >>

\* except Exception of the intent call
IntentError(p) ==
    /\ pc[p] = "GR_intent_error"
    /\ Return(p, CouldNotDetermine)
    /\ UNCHANGED << local_file_path, intent, folder_id, calls, uploaded, failed >>
    /\ UNCHANGED << meetVars, calendarVars, frameVars, replyVars >>

\* a dispatch that takes anything else for a meet request
BranchElseMeet(i) ==
    CASE i = "feedback" -> "feedback"
      [] i = "upload" -> "upload"
      [] i = "calendar" -> "calendar"
      [] OTHER -> "meet"

\* the branch generate_response takes for an intent
Branch(i) ==
    CASE i = "feedback" -> "feedback"
      [] i = "upload" -> "upload"
      [] i = "meet" -> "meet"
      [] i = "calendar" -> "calendar"
      [] OTHER -> "fallback"

\* an acknowledgment that addresses the sender by name
FeedbackByName(p) ==
    /\ pc[p] = "GR_dispatch"
    /\ Branch(intent[p]) = "feedback"
    /\ Return(p, ThankYou \o " " \o name[p])
    /\ UNCHANGED << local_file_path, intent, folder_id, calls, uploaded, failed >>
    /\ UNCHANGED << meetVars, calendarVars, frameVars, replyVars >>

\* if intent == "feedback"
Feedback(p) ==
    /\ pc[p] = "GR_dispatch"
    /\ Branch(intent[p]) = "feedback"
    /\ Return(p, ThankYou)
    /\ UNCHANGED << local_file_path, intent, folder_id, calls, uploaded, failed >>
    /\ UNCHANGED << meetVars, calendarVars, frameVars, replyVars >>

\* the fallback for anything else
Unrecognized(p) ==
    /\ pc[p] = "GR_dispatch"
    /\ Branch(intent[p]) = "fallback"
    /\ Return(p, DidNotUnderstand)
    /\ UNCHANGED << local_file_path, intent, folder_id, calls, uploaded, failed >>
    /\ UNCHANGED << meetVars, calendarVars, frameVars, replyVars >>

(***************************************************************************)
(* The upload branch and upload_file_response.                             *)
(***************************************************************************)
RECURSIVE LastIndexOf(_, _, _)
\* the last position at or before i where s holds the character ch, else 0
LastIndexOf(s, ch, i) ==
    IF i <= 0 THEN 0
    ELSE IF CharAt(s, i) = ch THEN i ELSE LastIndexOf(s, ch, i - 1)

\* os.path.basename
Basename(path) == From(path, LastIndexOf(path, "/", Len(path)) + 1)

\* os.path.splitext(path)[1]: from the last dot of the base name, when that
\* dot is not the name's first character
Extension(path) ==
    LET base == Basename(path)
        dot == LastIndexOf(base, ".", Len(base))
    IN  IF dot <= 1 THEN "" ELSE From(base, dot)

\* the MIME type set from the extension
MimeType(path) ==
    IF Lower(Extension(path)) = ".txt" THEN "text/plain"
    ELSE "application/octet-stream"

\* FOLDER_MAP.get(key), the ids being the environment's
FolderMapGet(key) ==
    CASE key = "college_daa" -> "id-college-daa"
      [] key = "college_sdam" -> "id-college-sdam"
      [] key = "college_misc" -> "id-college-misc"
      [] key = "personal_docs" -> "id-personal-docs"
      [] key = "personal_misc" -> "id-personal-misc"
      [] OTHER -> NoneStr

\* SHARED_FOLDER_ID, the default of upload_file_response's folder_id
SHARED_FOLDER_ID == "id-shared"

\* what the model answers to the folder prompt
FolderReplies == {"college_daa", " personal_docs\n", "homework", ""}

\* the classes the Drive client raises before the request, and at it
DriveSetupRaises == {"ValueError", "FileNotFoundError"}
DriveRaises == {"HttpError"}

\* the ids Drive gives the uploaded files
FileIds == {"file-1"}

\* an upload branch that goes on without a file
UploadAnyway(p) ==
    /\ pc[p] = "GR_dispatch"
    /\ Branch(intent[p]) = "upload"
    /\ Goto(p, "GR_folder")
    /\ UNCHANGED << response, responded >>
    /\ UNCHANGED << local_file_path, intent, folder_id, calls, uploaded, failed >>
    /\ UNCHANGED << meetVars, calendarVars, frameVars, replyVars >>

\* an upload branch that leaves the folder call out
UploadSkipsFolder(p) ==
    /\ pc[p] = "GR_dispatch"
    /\ Branch(intent[p]) = "upload"
    /\ IF local_file_path[p] = NoneStr
       THEN Return(p, NoFile)
       ELSE Goto(p, "UP_setup") /\ UNCHANGED << response, responded >>
    /\ UNCHANGED << local_file_path, intent, folder_id, calls, uploaded, failed >>
    /\ UNCHANGED << meetVars, calendarVars, frameVars, replyVars >>

\* if intent == "upload", to the path check
Upload(p) ==
    /\ pc[p] = "GR_dispatch"
    /\ Branch(intent[p]) = "upload"
    /\ IF local_file_path[p] = NoneStr
       THEN Return(p, NoFile)
       ELSE Goto(p, "GR_folder") /\ UNCHANGED << response, responded >>
    /\ UNCHANGED << local_file_path, intent, folder_id, calls, uploaded, failed >>
    /\ UNCHANGED << meetVars, calendarVars, frameVars, replyVars >>

\* the folder call and the lookup of its answer
ClassifyFolder(p) ==
    /\ pc[p] = "GR_folder"
    /\ Called(p, "folder")
    /\ \/ \E c \in OpenAIRaises :
              /\ Raise(p, FolderTry, c)
              /\ Failed(p, "folder")
              /\ UNCHANGED folder_id
       \/ \E reply \in FolderReplies :
              /\ folder_id' = [folder_id EXCEPT ![p] = FolderMapGet(Strip(reply))]
              /\ Goto(p, "UP_setup")
              /\ UNCHANGED failed
    /\ UNCHANGED << local_file_path, intent, response, responded, uploaded >>
    /\ UNCHANGED << meetVars, calendarVars, frameVars, replyVars >>

\* an except clause of the folder call that gives the upload up
FolderErrorGivesUp(p) ==
    /\ pc[p] = "GR_folder_error"
    /\ Return(p, "Error determining folder.")
    /\ UNCHANGED << local_file_path, intent, folder_id, calls, uploaded, failed >>
    /\ UNCHANGED << meetVars, calendarVars, frameVars, replyVars >>

\* except Exception of the folder call
FolderError(p) ==
    /\ pc[p] = "GR_folder_error"
    /\ folder_id' = [folder_id EXCEPT ![p] = NoneStr]
    /\ Goto(p, "UP_setup")
    /\ UNCHANGED << local_file_path, intent, calls, response, responded,
                    uploaded, failed >>
    /\ UNCHANGED << meetVars, calendarVars, frameVars, replyVars >>

\* upload_file_response up to the request: authenticate, the metadata,
\* the media object
UploadSetup(p) ==
    /\ pc[p] = "UP_setup"
    /\ \/ \E c \in DriveSetupRaises :
              /\ Raise(p, UploadTry, c)
              /\ Failed(p, c)
              /\ UNCHANGED uploaded
       \/ /\ uploaded' =
                 [uploaded EXCEPT ![p] =
                     Some([name |-> Basename(local_file_path[p]),
                           mime |-> MimeType(local_file_path[p]),
                           parents |-> IF folder_id[p] \notin {NoneStr, ""}
                                       THEN << folder_id[p] >> ELSE << >>])]
          /\ Goto(p, "UP_create")
          /\ UNCHANGED failed
    /\ UNCHANGED << local_file_path, intent, folder_id, calls, response,
                    responded >>
    /\ UNCHANGED << meetVars, calendarVars, frameVars, replyVars >>

\* the response of a successful upload
UploadedText(file_id, folder) ==
    "File uploaded. File link: https://drive.google.com/file/d/" \o file_id
        \o "/view"
        \o (IF folder \notin {NoneStr, ""}
            THEN "\nFile was uploaded into folder: https://drive.google.com/drive/folders/"
                     \o folder
            ELSE "")

\* service.files().create(...).execute() and the return through
\* generate_response
UploadCreate(p) ==
    /\ pc[p] = "UP_create"
    /\ Called(p, "upload")
    /\ \/ \E c \in DriveRaises :
              /\ Raise(p, UploadTry, c)
              /\ Failed(p, c)
              /\ UNCHANGED << response, responded >>
       \/ \E id \in FileIds :
              /\ Return(p, UploadedText(id, folder_id[p]))
              /\ UNCHANGED failed
    /\ UNCHANGED << local_file_path, intent, folder_id, uploaded >>
    /\ UNCHANGED << meetVars, calendarVars, frameVars, replyVars >>

\* except Exception of upload_file_response, e being the one class raised
\* for this message
UploadError(p) ==
    /\ pc[p] = "UP_error"
    /\ \E c \in failed[p] \cap ExcClasses :
           Return(p, "Error uploading file: " \o ExcText(c))
    /\ UNCHANGED << local_file_path, intent, folder_id, calls, uploaded, failed >>
    /\ UNCHANGED << meetVars, calendarVars, frameVars, replyVars >>

(***************************************************************************)
(* generate_meet_link.  The pool file is read in one step and rewritten in *)
(* several: the truncation, then the buffered writes, which reach the file *)
(* when the buffer has filled and when the with statement closes it.  A    *)
(* write that raises leaves what it was to write unwritten.                *)
(***************************************************************************)
\* the classes open() raises on a file that exists, and the file
\* operations after it
PoolOpenRaises == {"PermissionError", "OSError"}
PoolIORaises == {"OSError"}
\* the classes the Calendar client raises before a request, and at it
CalendarSetupRaises == {"ValueError"}
CalendarRaises == {"HttpError", "OSError"}

\* the links the fallback event's conference data gives
FallbackUris == {"https://meet.google.com/new"}

NoMeetLink == "No Meet link generated."
MeetHttpError == "Error generating Google Meet link using Google API."
MeetError == "Error generating Google Meet link."

\* if intent == "meet": the call of generate_meet_link
Meet(p) ==
    /\ pc[p] = "GR_dispatch"
    /\ Branch(intent[p]) = "meet"
    /\ caller' = [caller EXCEPT ![p] = "generate_response"]
    /\ Goto(p, "ML_open")
    /\ UNCHANGED << poolFile, fh, links, link, meet_link, issued, storeFault,
                    raced >>
    /\ UNCHANGED << local_file_path, intent, folder_id, calls, response,
                    responded, uploaded, failed >>
    /\ UNCHANGED << calendarVars, frameVars, replyVars >>

\* what no step of generate_meet_link changes
MeetFrame ==
    /\ UNCHANGED << caller, local_file_path, intent, folder_id, response,
                    responded, uploaded >>
    /\ UNCHANGED << calendarVars, frameVars, replyVars >>

\* an exception in the with block: the file object is closed, what it had
\* buffered is lost, and the except clauses of the pool try take it
PoolRaise(p, c) ==
    /\ Raise(p, PoolTry, c)
    /\ fh' = [fh EXCEPT ![p] = ClosedFile]
    /\ Failed(p, "pool")

\* a return statement of generate_meet_link
ReturnLink(p, src, text) ==
    /\ meet_link' = [meet_link EXCEPT ![p] = [src |-> src, text |-> text]]
    /\ issued' = issued + 1
    /\ Goto(p, IF caller[p] = "direct" THEN "Returned" ELSE "GR_meet_respond")

\* open(meet_links_path, "r+")
OpenPool(p) ==
    /\ pc[p] = "ML_open"
    /\ Called(p, "pool_open")
    /\ IF poolFile = NoneStr
       THEN /\ PoolRaise(p, "FileNotFoundError")
            /\ UNCHANGED storeFault
       ELSE \/ \E c \in PoolOpenRaises :
                   /\ PoolRaise(p, c)
                   /\ storeFault' = TRUE
            \/ /\ fh' = [fh EXCEPT ![p] = ClosedFile]
               /\ Goto(p, "ML_read")
               /\ UNCHANGED << failed, storeFault >>
    /\ UNCHANGED << poolFile, links, link, meet_link, issued >>
    /\ UNCHANGED raced
    /\ MeetFrame

\* the calls that have read the pool file and not yet closed it
InWindow == {q \in Procs : pc[q] \in {"ML_pop", "ML_truncate", "ML_write"}}

\* links = [line.strip() for line in f if line.strip()]
ReadPool(p) ==
    /\ pc[p] = "ML_read"
    /\ raced' = (raced \/ InWindow \ {p} # {})
    /\ \/ \E c \in PoolIORaises :
              /\ PoolRaise(p, c)
              /\ storeFault' = TRUE
              /\ UNCHANGED links
       \/ /\ links' = [links EXCEPT ![p] = LinksOf(poolFile)]
          /\ fh' = [fh EXCEPT ![p].pos = Len(poolFile)]
          /\ Goto(p, "ML_pop")
          /\ UNCHANGED << failed, storeFault >>
    /\ UNCHANGED << poolFile, link, meet_link, issued, calls >>
    /\ MeetFrame

\* if links: link = links.pop(0); else: out of the with block, to the
\* fallback
PopLink(p) ==
    /\ pc[p] = "ML_pop"
    /\ IF links[p] # << >>
       THEN /\ link' = [link EXCEPT ![p] = PopFirst(links[p]).link]
            /\ links' = [links EXCEPT ![p] = PopFirst(links[p]).rest]
            /\ Goto(p, "ML_truncate")
            /\ UNCHANGED fh
       ELSE /\ fh' = [fh EXCEPT ![p] = ClosedFile]
            /\ Goto(p, "ML_fallback")
            /\ UNCHANGED << link, links >>
    /\ UNCHANGED << poolFile, meet_link, issued, storeFault, calls, failed >>
    /\ UNCHANGED raced
    /\ MeetFrame

\* f.seek(0); f.truncate(0)
TruncatePool(p) ==
    /\ pc[p] = "ML_truncate"
    /\ \/ \E c \in PoolIORaises :
              /\ PoolRaise(p, c)
              /\ storeFault' = TRUE
              /\ UNCHANGED poolFile
       \/ /\ fh' = [fh EXCEPT ![p].pos = 0]
          /\ poolFile' = ""
          /\ Goto(p, "ML_write")
          /\ UNCHANGED << failed, storeFault >>
    /\ UNCHANGED << links, link, meet_link, issued, calls >>
    /\ UNCHANGED raced
    /\ MeetFrame

\* a write-through that drops the buffer
FlushedDropped(file, f) ==
    [file |-> file, fh |-> [f EXCEPT !.pos = f.pos + Len(f.buf), !.buf = ""]]

\* the file and the file object after the buffer is written through
Flushed(file, f) ==
    [file |-> IF f.buf = "" THEN file ELSE WriteAt(file, f.pos, f.buf),
     fh |-> [f EXCEPT !.pos = f.pos + Len(f.buf), !.buf = ""]]

\* f.write(l + "\n") for the next l of links; the buffer is written through
\* once it holds BufferChars characters
WriteLink(p) ==
    /\ pc[p] = "ML_write"
    /\ fh[p].next <= Len(links[p])
    /\ LET f == [fh[p] EXCEPT !.buf = @ \o links[p][fh[p].next] \o "\n",
                              !.next = @ + 1]
       IN  IF Len(f.buf) < BufferChars
           THEN /\ fh' = [fh EXCEPT ![p] = f]
                /\ UNCHANGED << poolFile, pc, failed, storeFault >>
           ELSE \/ \E c \in PoolIORaises :
                       /\ PoolRaise(p, c)
                       /\ storeFault' = TRUE
                       /\ UNCHANGED poolFile
                \/ /\ fh' = [fh EXCEPT ![p] = Flushed(poolFile, f).fh]
                   /\ poolFile' = Flushed(poolFile, f).file
                   /\ UNCHANGED << pc, failed, storeFault >>
    /\ UNCHANGED << links, link, meet_link, issued, calls >>
    /\ UNCHANGED raced
    /\ MeetFrame

\* return link, through the end of the with block, which closes the file
\* and writes the buffer through
ClosePool(p) ==
    /\ pc[p] = "ML_write"
    /\ fh[p].next > Len(links[p])
    /\ \/ \E c \in PoolIORaises :
              /\ PoolRaise(p, c)
              /\ storeFault' = TRUE
              /\ UNCHANGED << poolFile, meet_link, issued >>
       \/ /\ poolFile' = Flushed(poolFile, fh[p]).file
          /\ fh' = [fh EXCEPT ![p] = ClosedFile]
          /\ ReturnLink(p, "pool", link[p])
          /\ UNCHANGED << failed, storeFault >>
    /\ UNCHANGED << links, link, calls >>
    /\ UNCHANGED raced
    /\ MeetFrame

\* a fallback that appends the link it made to the pool file
FallbackWritesBack(p) ==
    /\ pc[p] = "ML_fallback"
    /\ \/ \E c \in CalendarSetupRaises :
              /\ Raise(p, FallbackTry, c)
              /\ Failed(p, "fallback")
              /\ UNCHANGED << calls, meet_link, issued, poolFile >>
       \/ /\ Called(p, "fallback_insert")
          /\ \/ \E c \in CalendarRaises \cup {"IndexError"} :
                    /\ Raise(p, FallbackTry, c)
                    /\ Failed(p, "fallback")
                    /\ UNCHANGED << meet_link, issued, poolFile >>
             \/ \E uri \in FallbackUris :
                    /\ ReturnLink(p, "fallback", uri)
                    /\ poolFile' = (IF poolFile = NoneStr THEN "" ELSE poolFile)
                                       \o uri \o "\n"
                    /\ UNCHANGED failed
             \/ /\ ReturnLink(p, "failed", NoMeetLink)
                /\ Failed(p, "fallback")
                /\ UNCHANGED poolFile
    /\ UNCHANGED << fh, links, link, storeFault >>
    /\ UNCHANGED raced
    /\ MeetFrame

\* the fallback: a throwaway event with a conference request
Fallback(p) ==
    /\ pc[p] = "ML_fallback"
    /\ \/ \E c \in CalendarSetupRaises :
              /\ Raise(p, FallbackTry, c)
              /\ Failed(p, "fallback")
              /\ UNCHANGED << calls, meet_link, issued >>
       \/ /\ Called(p, "fallback_insert")
          /\ \/ \E c \in CalendarRaises \cup {"IndexError"} :
                    \* IndexError: the event's entryPoints is an empty list
                    /\ Raise(p, FallbackTry, c)
                    /\ Failed(p, "fallback")
                    /\ UNCHANGED << meet_link, issued >>
             \/ \E uri \in FallbackUris :
                    /\ ReturnLink(p, "fallback", uri)
                    /\ UNCHANGED failed
             \/ \* the event carries no uri
                /\ ReturnLink(p, "failed", NoMeetLink)
                /\ Failed(p, "fallback")
    /\ UNCHANGED << poolFile, fh, links, link, storeFault >>
    /\ UNCHANGED raced
    /\ MeetFrame

\* except HttpError of the fallback
FallbackHttpError(p) ==
    /\ pc[p] = "ML_http_error"
    /\ ReturnLink(p, "failed", MeetHttpError)
    /\ UNCHANGED << poolFile, fh, links, link, storeFault, calls, failed >>
    /\ UNCHANGED raced
    /\ MeetFrame

\* except Exception of the fallback
FallbackError(p) ==
    /\ pc[p] = "ML_error"
    /\ ReturnLink(p, "failed", MeetError)
    /\ UNCHANGED << poolFile, fh, links, link, storeFault, calls, failed >>
    /\ UNCHANGED raced
    /\ MeetFrame

\* the response of the meet branch
MeetRespond(p) ==
    /\ pc[p] = "GR_meet_respond"
    /\ Return(p, "**Google Meet Link:** " \o StrOf(meet_link[p].text))
    /\ UNCHANGED << local_file_path, intent, folder_id, calls, uploaded, failed >>
    /\ UNCHANGED << meetVars, calendarVars, frameVars, replyVars >>

\* the steps of generate_meet_link
MeetLinkStep(p) ==
    \/ OpenPool(p)
    \/ ReadPool(p)
    \/ PopLink(p)
    \/ TruncatePool(p)
    \/ WriteLink(p)
    \/ ClosePool(p)
    \/ Fallback(p)
    \/ FallbackHttpError(p)
    \/ FallbackError(p)

(***************************************************************************)
(* extract_event_details: the regular expressions, as re.search runs them. *)
(* A search tries the occurrences of the field's key from the left and     *)
(* takes the first one the rest of the pattern matches at.                 *)
(***************************************************************************)
RECURSIVE Span(_, _, _)
\* the first position at or after i whose character is not in set
\* (Len(s) + 1 when there is none): where a greedy set* stops
Span(s, i, set) ==
    IF i > Len(s) \/ CharAt(s, i) \notin set THEN i ELSE Span(s, i + 1, set)

RECURSIVE LineEnd(_, _)
\* the first position at or after i that holds a newline (Len(s) + 1 when
\* there is none): where a greedy .+ stops
LineEnd(s, i) ==
    IF i > Len(s) \/ CharAt(s, i) = "\n" THEN i ELSE LineEnd(s, i + 1)

RECURSIVE LastNonNewline(_, _, _)
\* the last position in lo..hi that holds no newline, else 0
LastNonNewline(s, lo, hi) ==
    IF hi < lo THEN 0
    ELSE IF CharAt(s, hi) # "\n" THEN hi ELSE LastNonNewline(s, lo, hi - 1)

\* \s*(.+) at position j0: the group, None when it does not match.  When
\* only white space follows, \s* gives back characters until .+ has one
\* that is no newline.
RestOfLineAt(s, j0) ==
    LET j == Span(s, j0, Whitespace)
        q == LastNonNewline(s, j0, Len(s))
    IN  IF j <= Len(s) THEN Some(SubSeq(s, j, LineEnd(s, j) - 1))
        ELSE IF q = 0 THEN None
        ELSE Some(CharAt(s, q))

\* [\d]{4}-[\d]{2}-[\d]{2} at position j
IsDateAt(s, j) ==
    /\ j + 9 <= Len(s)
    /\ \A k \in {0, 1, 2, 3, 5, 6, 8, 9} : CharAt(s, j + k) \in Digits
    /\ CharAt(s, j + 4) = "-"
    /\ CharAt(s, j + 7) = "-"

\* a date pattern that refuses the thirtieth and thirty-first of February
DateAtChecked(s, j0) ==
    LET j == Span(s, j0, Whitespace)
    IN  IF /\ IsDateAt(s, j)
           /\ ~(SubSeq(s, j + 5, j + 6) = "02" /\ CharAt(s, j + 8) = "3")
        THEN Some(SubSeq(s, j, j + 9))
        ELSE IF StartsAt(s, j, "Not provided") THEN Some("Not provided")
        ELSE None

\* \s*([\d]{4}-[\d]{2}-[\d]{2}|Not provided) at position j0
DateAt(s, j0) ==
    LET j == Span(s, j0, Whitespace)
    IN  IF IsDateAt(s, j) THEN Some(SubSeq(s, j, j + 9))
        ELSE IF StartsAt(s, j, "Not provided") THEN Some("Not provided")
        ELSE None

AmPmChars == {"A", "P", "M", "a", "p", "m"}

\* \s*([\d:]+\s*[APMapm]+|All Day|Not provided) at position j0
TimeAt(s, j0) ==
    LET j == Span(s, j0, Whitespace)
        k == Span(s, j, Digits \cup {":"})
        m == Span(s, k, Whitespace)
        e == Span(s, m, AmPmChars)
    IN  IF k > j /\ e > m THEN Some(SubSeq(s, j, e - 1))
        ELSE IF StartsAt(s, j, "All Day") THEN Some("All Day")
        ELSE IF StartsAt(s, j, "Not provided") THEN Some("Not provided")
        ELSE None

\* the rest of a field's pattern at position j0
FieldAt(field, s, j0) ==
    CASE field = "Date:" -> DateAt(s, j0)
      [] field = "Time:" -> TimeAt(s, j0)
      [] OTHER -> RestOfLineAt(s, j0)

RECURSIVE SearchFrom(_, _, _)
\* re.search of a field's pattern from position i on: the group of the
\* leftmost match, None when there is no match
SearchFrom(field, s, i) ==
    IF i > Len(s) THEN None
    ELSE IF StartsAt(s, i, field) /\ FieldAt(field, s, i + Len(field)) # None
         THEN FieldAt(field, s, i + Len(field))
         ELSE SearchFrom(field, s, i + 1)

\* re.search(pattern of the field, text)
Search(field, s) == SearchFrom(field, s, 1)

\* the event_details dictionary built from the model's reply
ParseDetails(content) ==
    LET text == Strip(content)
        title_match == Search("Title:", text)
        date_match == Search("Date:", text)
        time_match == Search("Time:", text)
        location_match == Search("Location:", text)
        notes_match == Search("Notes:", text)
    IN  [title |-> IF title_match # None THEN Strip(title_match[1])
                   ELSE "Not provided",
         date |-> IF date_match # None /\ date_match # Some("Not provided")
                  THEN Strip(date_match[1]) ELSE NoneStr,
         time |-> IF time_match # None /\ time_match # Some("Not provided")
                  THEN Strip(time_match[1]) ELSE "All Day",
         location |-> IF location_match # None THEN Strip(location_match[1])
                      ELSE "Not provided",
         notes |-> IF notes_match # None THEN Strip(notes_match[1])
                   ELSE "Not provided"]

(***************************************************************************)
(* schedule_google_calendar_event: datetime.strptime with the format       *)
(* "%Y-%m-%d %I:%M %p", the localisation and strftime with                 *)
(* "%Y-%m-%dT%H:%M:%S%z".                                                  *)
(***************************************************************************)
DigitVal(c) ==
    CASE c = "0" -> 0 [] c = "1" -> 1 [] c = "2" -> 2 [] c = "3" -> 3
      [] c = "4" -> 4 [] c = "5" -> 5 [] c = "6" -> 6 [] c = "7" -> 7
      [] c = "8" -> 8 [] c = "9" -> 9

DigitChar(n) ==
    CASE n = 0 -> "0" [] n = 1 -> "1" [] n = 2 -> "2" [] n = 3 -> "3"
      [] n = 4 -> "4" [] n = 5 -> "5" [] n = 6 -> "6" [] n = 7 -> "7"
      [] n = 8 -> "8" [] n = 9 -> "9"

RECURSIVE ToInt(_)
\* int(s) of a text of digits
ToInt(s) ==
    IF s = "" THEN 0
    ELSE 10 * ToInt(SubSeq(s, 1, Len(s) - 1)) + DigitVal(CharAt(s, Len(s)))

AllDigits(s) == \A k \in 1..Len(s) : CharAt(s, k) \in Digits

\* the number n in two digits, and in four
Pad2(n) == DigitChar((n \div 10) % 10) \o DigitChar(n % 10)
Pad4(n) == Pad2(n \div 100) \o Pad2(n % 100)

IsLeap(y) == (y % 4 = 0 /\ y % 100 # 0) \/ y % 400 = 0

DaysInMonth(y, m) ==
    IF m = 2 THEN (IF IsLeap(y) THEN 29 ELSE 28)
    ELSE IF m \in {4, 6, 9, 11} THEN 30 ELSE 31

\* the offset of Asia/Kolkata from UTC, in minutes, that localize gives a
\* date of the years the model draws from (India Standard Time)
KolkataOffsetMinutes == 330

\* the lengths of the prefix of t that %I matches: 1[0-2]|0[1-9] or [1-9]
HourLens(t) ==
    {n \in {1, 2} :
        /\ n <= Len(t)
        /\ AllDigits(SubSeq(t, 1, n))
        /\ ToInt(SubSeq(t, 1, n)) \in (IF n = 2 THEN 1..12 ELSE 1..9)}

\* the lengths of the text at position i that %M matches: [0-5]\d or \d
MinuteLens(t, i) ==
    {n \in {1, 2} :
        /\ i + n - 1 <= Len(t)
        /\ AllDigits(SubSeq(t, i, i + n - 1))
        /\ ToInt(SubSeq(t, i, i + n - 1)) \in 0..59}

\* the ways "%I:%M %p" matches the whole of t, as the lengths of the hour
\* and the minute: a colon between them, then \s+, then am or pm in either
\* case up to the end
TimeParses(t) ==
    {hm \in {1, 2} \X {1, 2} :
        /\ hm[1] \in HourLens(t)
        /\ CharAt(t, hm[1] + 1) = ":"
        /\ hm[2] \in MinuteLens(t, hm[1] + 2)
        /\ Span(t, hm[1] + hm[2] + 2, Whitespace) > hm[1] + hm[2] + 2
        /\ Lower(From(t, Span(t, hm[1] + hm[2] + 2, Whitespace))) \in {"am", "pm"}}

\* the hour of the day of a 12-hour clock's hour
Hour24(h, ampm) ==
    IF ampm = "am" THEN (IF h = 12 THEN 0 ELSE h)
    ELSE (IF h = 12 THEN 12 ELSE h + 12)

\* datetime.strptime(date + " " + time, "%Y-%m-%d %I:%M %p"): the datetime,
\* None when it raises ValueError
StrpTime(date, time) ==
    LET shaped == Len(date) = 10 /\ IsDateAt(date, 1)
        y == ToInt(SubSeq(date, 1, 4))
        m == ToInt(SubSeq(date, 6, 7))
        d == ToInt(SubSeq(date, 9, 10))
        parses == TimeParses(time)
        hm == CHOOSE x \in parses : TRUE
        ampm == Lower(From(time, Span(time, hm[1] + hm[2] + 2, Whitespace)))
    IN  IF ~shaped \/ parses = {} THEN None
        ELSE IF y < 1 \/ m \notin 1..12 \/ d \notin 1..DaysInMonth(y, m) THEN None
        ELSE Some([year |-> y, month |-> m, day |-> d,
                   hour |-> Hour24(ToInt(SubSeq(time, 1, hm[1])), ampm),
                   minute |-> ToInt(SubSeq(time, hm[1] + 2, hm[1] + hm[2] + 1))])

\* %z of an offset of mins minutes
FormatOffset(mins) ==
    (IF mins < 0 THEN "-" ELSE "+")
        \o Pad2((IF mins < 0 THEN -mins ELSE mins) \div 60)
        \o Pad2((IF mins < 0 THEN -mins ELSE mins) % 60)

\* ist.localize(dt).strftime("%Y-%m-%dT%H:%M:%S%z")
StrfTime(dt) ==
    Pad4(dt.year) \o "-" \o Pad2(dt.month) \o "-" \o Pad2(dt.day) \o "T"
        \o Pad2(dt.hour) \o ":" \o Pad2(dt.minute) \o ":" \o Pad2(0)
        \o FormatOffset(KolkataOffsetMinutes)

\* a start that gives an all-day event a time of day
EventTimeAlwaysTimed(details) ==
    IF details.date \in {NoneStr, ""} THEN None
    ELSE IF details.time # "All Day"
         THEN (IF StrpTime(details.date, details.time) = None THEN None
               ELSE Some([dateTime |-> StrfTime(StrpTime(details.date, details.time)[1]),
                          timeZone |-> "Asia/Kolkata"]))
         ELSE Some([dateTime |-> details.date \o "T00:00:00"
                                     \o FormatOffset(KolkataOffsetMinutes),
                    timeZone |-> "Asia/Kolkata"])

\* the start (and the end) of the event: None when the function returns
\* None (no date, or a date and time that do not parse)
EventTime(details) ==
    IF details.date \in {NoneStr, ""} THEN None
    ELSE IF details.time # "All Day"
         THEN (IF StrpTime(details.date, details.time) = None THEN None
               ELSE Some([dateTime |-> StrfTime(StrpTime(details.date, details.time)[1]),
                          timeZone |-> "Asia/Kolkata"]))
         ELSE Some([date |-> details.date])

(***************************************************************************)
(* The calendar branch.                                                    *)
(***************************************************************************)
\* what the model answers to the extraction prompt
ExtractionReplies ==
    {"Title: Standup\nDate: 2025-03-10\nTime: 09:00 AM\nLocation: Office\nNotes: Bring laptop",
     "Title: Dentist\nDate: 2024-02-29\nTime: 12:30 pm\nNotes: Not provided",
     "Title: Trip\nDate: 2025-03-10\nTime: All Day\nLocation: Not provided\nNotes: Not provided",
     "Title: Call\nDate: 2025-03-10\nTime: Not provided\nLocation: Home\nNotes: n",
     "Title: Lunch\nDate: Not provided\nTime: 01:15 PM\nLocation: Cafe\nNotes: n",
     "Title: Party\nDate: tomorrow\nTime: 9:00 PM\nLocation: Not provided\nNotes: n",
     "Title: Review\nDate: 2025-02-30\nTime: 12:00 AM\nLocation: Lab\nNotes: n",
     "Title: Demo\nDate: 2025-03-10\nTime: 15:00 PM\nLocation: Not provided\nNotes: n",
     "I could not find an event."}

\* the links Calendar gives the created events
EventLinks == {"https://www.google.com/calendar/event?eid=1"}

\* if intent == "calendar": the call of extract_event_details
Calendar(p) ==
    /\ pc[p] = "GR_dispatch"
    /\ Branch(intent[p]) = "calendar"
    /\ Goto(p, "EX_call")
    /\ UNCHANGED << local_file_path, intent, folder_id, calls, response,
                    responded, uploaded, failed >>
    /\ UNCHANGED << meetVars, calendarVars, frameVars, replyVars >>

\* what no step of the calendar branch changes
CalendarFrame ==
    /\ UNCHANGED << local_file_path, intent, folder_id, uploaded >>
    /\ UNCHANGED << meetVars, frameVars, replyVars >>

\* extract_event_details: the extraction call and the parse of its answer
ExtractDetails(p) ==
    /\ pc[p] = "EX_call"
    /\ Called(p, "extract")
    /\ \/ \E c \in OpenAIRaises :
              /\ Raise(p, ExtractTry, c)
              /\ Failed(p, "extract")
              /\ UNCHANGED << extracted_text, event_details >>
       \/ \E reply \in ExtractionReplies :
              /\ extracted_text' = [extracted_text EXCEPT ![p] = Strip(reply)]
              /\ event_details' = [event_details EXCEPT ![p] = Some(ParseDetails(reply))]
              /\ Goto(p, "GR_check_details")
              /\ UNCHANGED failed
    /\ UNCHANGED << event, scheduled_event, response, responded >>
    /\ UNCHANGED << local_file_path, intent, folder_id, uploaded >>
    /\ UNCHANGED << meetVars, frameVars, intent_response >>

\* except Exception of extract_event_details: return None
ExtractError(p) ==
    /\ pc[p] = "EX_error"
    /\ event_details' = [event_details EXCEPT ![p] = None]
    /\ Goto(p, "GR_check_details")
    /\ UNCHANGED << event, scheduled_event, response, responded, calls, failed >>
    /\ CalendarFrame

\* event_details alone is truthy
HasDetails(details) == details # None

\* event_details and event_details.get("date") are both truthy
HasDate(details) == details # None /\ details[1].date \notin {NoneStr, ""}

\* if not event_details or not event_details.get("date"): the refusal,
\* else the call of schedule_google_calendar_event
CheckDetails(p) ==
    /\ pc[p] = "GR_check_details"
    /\ IF HasDate(event_details[p])
       THEN Goto(p, "SC_setup") /\ UNCHANGED << response, responded >>
       ELSE Return(p, CouldNotExtract)
    /\ UNCHANGED << calendarVars, calls, failed >>
    /\ CalendarFrame

\* the credentials and the service object
ScheduleSetup(p) ==
    /\ pc[p] = "SC_setup"
    /\ \/ \E c \in CalendarSetupRaises :
              /\ Raise(p, ScheduleTry, c)
              /\ Failed(p, "schedule_setup")
       \/ Goto(p, "SC_times") /\ UNCHANGED failed
    /\ UNCHANGED << calendarVars, response, responded, calls >>
    /\ CalendarFrame

\* the event body
EventBody(details, when) ==
    [summary |-> details.title,
     location |-> IF details.location # "Not provided" THEN details.location ELSE "",
     description |-> IF details.notes # "Not provided" THEN details.notes ELSE "",
     start |-> when,
     end |-> when,
     reminders |-> [useDefault |-> TRUE]]

\* start and end from the date and the time, then the event body
BuildEvent(p) ==
    /\ pc[p] = "SC_times"
    /\ LET details == event_details[p][1]
           when == EventTime(details)
       IN  IF when # None
           THEN /\ event' = [event EXCEPT ![p] = Some(EventBody(details, when[1]))]
                /\ Goto(p, "SC_insert")
                /\ UNCHANGED failed
           ELSE IF details.date \in {NoneStr, ""}
           THEN \* No valid date provided in event details: return None
                /\ Goto(p, "SC_none")
                /\ Failed(p, "no_date")
                /\ UNCHANGED event
           ELSE \* strptime raised
                /\ Raise(p, ParseTry \o ScheduleTry, "ValueError")
                /\ Failed(p, "parse")
                /\ UNCHANGED event
    /\ UNCHANGED << event_details, scheduled_event, response, responded, calls >>
    /\ CalendarFrame

\* an insert that is tried once more when it raised
InsertEventRetries(p) ==
    /\ pc[p] = "SC_insert"
    /\ Called(p, "calendar_insert")
    /\ \/ \E c \in CalendarRaises :
              /\ IF "calendar_insert" \notin SeqRange(calls[p])
                 THEN Goto(p, "SC_insert")
                 ELSE Raise(p, ScheduleTry, c)
              /\ Failed(p, "insert")
              /\ UNCHANGED scheduled_event
       \/ \E event_link \in EventLinks :
              /\ scheduled_event' =
                     [scheduled_event EXCEPT ![p] =
                         Some([title |-> event_details[p][1].title,
                               date |-> event_details[p][1].date,
                               time |-> event_details[p][1].time,
                               location |-> event_details[p][1].location,
                               notes |-> event_details[p][1].notes,
                               event_link |-> event_link])]
              /\ Goto(p, "GR_calendar_respond")
              /\ UNCHANGED failed
    /\ UNCHANGED << event_details, event, response, responded >>
    /\ CalendarFrame

\* service.events().insert(...).execute() and the returned dictionary
InsertEvent(p) ==
    /\ pc[p] = "SC_insert"
    /\ Called(p, "calendar_insert")
    /\ \/ \E c \in CalendarRaises :
              /\ Raise(p, ScheduleTry, c)
              /\ Failed(p, "insert")
              /\ UNCHANGED scheduled_event
       \/ \E event_link \in EventLinks :
              /\ scheduled_event' =
                     [scheduled_event EXCEPT ![p] =
                         Some([title |-> event_details[p][1].title,
                               date |-> event_details[p][1].date,
                               time |-> event_details[p][1].time,
                               location |-> event_details[p][1].location,
                               notes |-> event_details[p][1].notes,
                               event_link |-> event_link])]
              /\ Goto(p, "GR_calendar_respond")
              /\ UNCHANGED failed
    /\ UNCHANGED << event_details, event, response, responded >>
    /\ CalendarFrame

\* the return None statements of schedule_google_calendar_event: the parse's
\* except clause, the missing date, except HttpError, except Exception
ScheduleNone(p) ==
    /\ pc[p] \in {"SC_parse_error", "SC_none", "SC_http_error", "SC_error"}
    /\ scheduled_event' = [scheduled_event EXCEPT ![p] = None]
    /\ Goto(p, "GR_calendar_respond")
    /\ UNCHANGED << event_details, event, response, responded, calls, failed >>
    /\ CalendarFrame

\* a summary that leaves the event link out
ScheduledTextNoLink(ev) ==
    "**Reminder Scheduled**\n\n"
        \o "**Title:** " \o StrOf(ev.title) \o "\n"
        \o "**Date:** " \o StrOf(ev.date) \o "\n"
        \o "**Time:** " \o StrOf(ev.time) \o "\n"
        \o "**Location:** " \o StrOf(ev.location) \o "\n"
        \o "**Notes:** " \o StrOf(ev.notes) \o "\n"

\* the response for a scheduled event
ScheduledText(ev) ==
    "**Reminder Scheduled**\n\n"
        \o "**Title:** " \o StrOf(ev.title) \o "\n"
        \o "**Date:** " \o StrOf(ev.date) \o "\n"
        \o "**Time:** " \o StrOf(ev.time) \o "\n"
        \o "**Location:** " \o StrOf(ev.location) \o "\n"
        \o "**Notes:** " \o StrOf(ev.notes) \o "\n"
        \o "[View in Google Calendar](" \o StrOf(ev.event_link) \o ")"

\* if scheduled_event: the summary, else the failure text
CalendarRespond(p) ==
    /\ pc[p] = "GR_calendar_respond"
    /\ IF scheduled_event[p] # None
       THEN Return(p, ScheduledText(scheduled_event[p][1]))
       ELSE Return(p, FailedToSchedule)
    /\ UNCHANGED << calendarVars, calls, failed >>
    /\ CalendarFrame

\* a call of generate_meet_link from outside the pipeline
Invoke(p) ==
    /\ pc[p] = "Idle"
    /\ caller' = [caller EXCEPT ![p] = "direct"]
    /\ poolAtReceive' = [poolAtReceive EXCEPT ![p] = poolFile]
    /\ Goto(p, "ML_open")
    /\ UNCHANGED << poolFile, fh, links, link, meet_link, issued, storeFault,
                    raced, pool0 >>
    /\ UNCHANGED << local_file_path, intent, folder_id, calls, response,
                    responded, uploaded, failed >>
    /\ UNCHANGED << calendarVars, replyVars, inboundVars, pairVars >>

\* the steps of generate_response and of the functions it calls
Handle(p) ==
    \/ ClassifyIntent(p)
    \/ IntentError(p)
    \/ Feedback(p)
    \/ Unrecognized(p)
    \/ Upload(p)
    \/ ClassifyFolder(p)
    \/ FolderError(p)
    \/ UploadSetup(p)
    \/ UploadCreate(p)
    \/ UploadError(p)
    \/ Meet(p)
    \/ MeetLinkStep(p)
    \/ MeetRespond(p)
    \/ Calendar(p)
    \/ ExtractDetails(p)
    \/ ExtractError(p)
    \/ CheckDetails(p)
    \/ ScheduleSetup(p)
    \/ BuildEvent(p)
    \/ InsertEvent(p)
    \/ ScheduleNone(p)
    \/ CalendarRespond(p)

Next ==
    \E p \in Procs :
        \/ Receive(p)
        \/ Handle(p)

Spec == Init /\ [][Next]_vars

\* a pool file of three links, the second of which fills the buffer of the
\* file object by itself
LongPoolFiles == {JoinLines(<< "A", "LINK", "C" >>)}

\* the concurrent calls start from the pool files of Init or from a longer
\* one
InitConc == InitWith(PoolFiles \cup LongPoolFiles)

\* generate_meet_link called by invocations that run concurrently, one call
\* each
NextConc ==
    \E p \in Procs :
        \/ Invoke(p)
        \/ MeetLinkStep(p)

SpecConc == InitConc /\ [][NextConc]_vars


(***************************************************************************)
(* extract_event_details called on its own, over replies put together from *)
(* the five lines the prompt asks for: each line as asked, with its value  *)
(* left empty or not as asked, or left out.                                *)
(***************************************************************************)
TitleLines == {"Title: Standup\n", "Title:\n", ""}
DateLines ==
    {"Date: 2025-03-10\n", "Date: 2025-02-30\n", "Date: Not provided\n",
     "Date: tomorrow\n", ""}
TimeLines == {"Time: 09:00 AM\n", "Time: Not provided\n", "Time: noon\n", ""}
LocationLines == {"Location: Office\n", "Location:\n", ""}
NotesLines == {"Notes: Bring laptop\n", "Notes:\n", ""}

\* the replies to the extraction prompt
LineReplies ==
    {t \o d \o m \o l \o n :
        t \in TitleLines, d \in DateLines, m \in TimeLines,
        l \in LocationLines, n \in NotesLines}

\* extract_event_details(message_body), from the call to the return
ExtractCall(p) ==
    /\ \A q \in Procs : pc[q] = "Idle"
    /\ Called(p, "extract")
    /\ \/ \E c \in OpenAIRaises :
              /\ FirstMatch(ExtractTry, c) = "EX_error"
              /\ event_details' = [event_details EXCEPT ![p] = None]
              /\ Failed(p, "extract")
              /\ UNCHANGED extracted_text
       \/ \E reply \in LineReplies :
              /\ extracted_text' = [extracted_text EXCEPT ![p] = Strip(reply)]
              /\ event_details' = [event_details EXCEPT ![p] = Some(ParseDetails(reply))]
              /\ UNCHANGED failed
    /\ Goto(p, "Returned")
    /\ UNCHANGED << event, scheduled_event, response, responded >>
    /\ UNCHANGED << local_file_path, intent, folder_id, uploaded >>
    /\ UNCHANGED << meetVars, frameVars, intent_response >>

NextExtract == \E p \in Procs : ExtractCall(p)

SpecExtract == Init /\ [][NextExtract]_vars

(***************************************************************************)
(* The conversational fallback (the free-chat variant of                   *)
(* generate_response): the history of a sender is fetched or created, the  *)
(* inbound turn appended, the whole history sent to the language model,    *)
(* the reply appended, the history kept, the reply returned.               *)
(***************************************************************************)
Turn(role, content) == [role |-> role, content |-> content]

\* the turn that sets up the persona
SystemTurn == Turn("system", "You are a helpful teaching assistant.")

Apology == "Sorry, I am unable to respond right now. Please try again later."

ChatTexts == {"hello", "when is the exam?"}
ChatReplies == {"Happy to help."}

\* the user turns of a history
UserTurns(h) == Cardinality({i \in DOMAIN h : h[i].role = "user"})

\* the exchanges the store holds
RECURSIVE Exchanges(_)
Exchanges(S) ==
    IF S = {} THEN 0
    ELSE LET u == CHOOSE v \in S : TRUE
         IN  UserTurns(threads[u]) + Exchanges(S \ {u})

\* get-or-create: a new history starts with the system turn
GetOrCreate(u) == IF threads[u] = << >> THEN << SystemTurn >> ELSE threads[u]

\* the variables of the structured branches
branchVars == << local_file_path, intent, folder_id, uploaded >>
\* the variables a step of the conversational fallback leaves alone
chatFrame ==
    << meetVars, calendarVars, replyVars, branchVars, pool0, poolAtReceive,
       message, document, media_url, trace, pairVars >>

\* a call of the free-chat generate_response(message_body, wa_id, name)
ChatReceive(p) ==
    /\ \A q \in Procs : pc[q] \in Quiescent
    /\ \A q \in Procs : q < p => pc[q] \notin Quiescent
    /\ Exchanges(Users) < MaxExchanges
    /\ \E u \in Users, text \in ChatTexts :
           /\ wa_id' = [wa_id EXCEPT ![p] = u]
           /\ name' = [name EXCEPT ![p] = "Student " \o u]
           /\ message_body' = [message_body EXCEPT ![p] = text]
    /\ thread' = [thread EXCEPT ![p] = << >>]
    /\ calls' = [calls EXCEPT ![p] = << >>]
    /\ failed' = [failed EXCEPT ![p] = {}]
    /\ response' = [response EXCEPT ![p] = NoneStr]
    /\ responded' = [responded EXCEPT ![p] = 0]
    /\ Goto(p, "CH_history")
    /\ UNCHANGED << threads, chatFrame >>

\* the history is fetched or created and the inbound turn appended
ChatHistory(p) ==
    /\ pc[p] = "CH_history"
    /\ thread' = [thread EXCEPT ![p] =
                      Append(GetOrCreate(wa_id[p]), Turn("user", message_body[p]))]
    /\ Goto(p, "CH_generate")
    /\ UNCHANGED << wa_id, name, message_body, threads, calls, failed,
                    response, responded, chatFrame >>

\* the whole history goes to the language model; its reply is appended
ChatGenerate(p) ==
    /\ pc[p] = "CH_generate"
    /\ Called(p, "chat")
    /\ \/ \E c \in OpenAIRaises :
              /\ Failed(p, "chat")
              /\ Goto(p, "CH_error")
              /\ UNCHANGED thread
       \/ \E reply \in ChatReplies :
              /\ thread' = [thread EXCEPT ![p] = Append(@, Turn("assistant", reply))]
              /\ Goto(p, "CH_persist")
              /\ UNCHANGED failed
    /\ UNCHANGED << wa_id, name, message_body, threads, response, responded,
                    chatFrame >>

\* the history is kept and the reply returned
ChatPersist(p) ==
    /\ pc[p] = "CH_persist"
    /\ threads' = [threads EXCEPT ![wa_id[p]] = thread[p]]
    /\ Return(p, thread[p][Len(thread[p])].content)
    /\ UNCHANGED << wa_id, name, message_body, thread, calls, failed,
                    chatFrame >>

\* a failure that drops the inbound turn with the reply
ChatErrorRollsBack(p) ==
    /\ pc[p] = "CH_error"
    /\ Return(p, Apology)
    /\ UNCHANGED << wa_id, name, message_body, threads, thread, calls, failed,
                    chatFrame >>

\* the language-model call failed: the history is kept with the inbound
\* turn and the apology returned
ChatError(p) ==
    /\ pc[p] = "CH_error"
    /\ threads' = [threads EXCEPT ![wa_id[p]] = thread[p]]
    /\ Return(p, Apology)
    /\ UNCHANGED << wa_id, name, message_body, thread, calls, failed,
                    chatFrame >>

NextChat ==
    \E p \in Procs :
        \/ ChatReceive(p)
        \/ ChatHistory(p)
        \/ ChatGenerate(p)
        \/ ChatPersist(p)
        \/ ChatError(p)

SpecChat == Init /\ [][NextChat]_vars

(***************************************************************************)
(* The webhook: process_whatsapp_message, download_whatsapp_document and   *)
(* send_message.  trace[p] lists the calls of requests.get and             *)
(* requests.post, the return of the download and the call of               *)
(* generate_response, in the order they happen.                            *)
(***************************************************************************)
Event(call, arg, status, value) ==
    [call |-> call, arg |-> arg, status |-> status, value |-> value]
Traced(p, events) == trace' = [trace EXCEPT ![p] = @ \o events]

\* the document payloads: document.get gives None for a key that is missing
StoredUrl == "https://lookaside.fbsbx.com/whatsapp/m1"
Documents ==
    [filename : {NoneStr, "notes.txt"}, media_url : {NoneStr, "", StoredUrl},
     id : {NoneStr, "", "m1"}]
\* the contacts of the webhook bodies
Contacts == {"919800000001"}
\* the messages of the webhook bodies: a document message has the key
\* "document"
Messages ==
    {[document |-> None],
     [document |-> Some([filename |-> "notes.txt", media_url |-> StoredUrl,
                         id |-> "m1"])],
     [document |-> Some([filename |-> "notes.txt", media_url |-> NoneStr,
                         id |-> "m1"])]}

\* a body that is not JSON
NotJson == "<html>"

\* what the media API answers: a status, and with 200 a body that is not
\* JSON, or JSON with or without "url"
HttpFailures == {"404"}
LookupBodies == {NoneStr, StoredUrl}
\* the classes requests raises
RequestsRaises == {"ConnectionError"}

MediaApiUrl(media_id) == "https://graph.facebook.com/VERSION/" \o media_id
\* os.path.join(tempfile.gettempdir(), file_name)
TempPath(file_name) == "/tmp/" \o file_name
Truthy(s) == s # NoneStr /\ s # ""

RECIPIENT_WAID == "919800000009"

\* the variables of generate_response and of the functions it calls
pipelineVars ==
    << meetVars, calendarVars, replyVars, branchVars, calls, failed, response,
       responded, pool0, poolAtReceive, pairVars >>
\* the conversation store
chatVars == << threads, thread >>

\* process_whatsapp_message takes the sender and the message out of the body
ProcessMessage(p) ==
    /\ \A q \in Procs : pc[q] = "Idle"
    /\ \A q \in Procs : q >= p
    /\ \E u \in Contacts, m \in Messages :
           /\ wa_id' = [wa_id EXCEPT ![p] = u]
           /\ name' = [name EXCEPT ![p] = "Student " \o u]
           /\ message' = [message EXCEPT ![p] = Some(m)]
           /\ message_body' = [message_body EXCEPT ![p] =
                  IF m.document = None THEN "hello" ELSE ""]
    /\ Goto(p, "PW_dispatch")
    /\ UNCHANGED << document, media_url, trace, chatVars, pipelineVars >>

\* download_whatsapp_document returns: to _handle_document_message, which
\* calls generate_response with what it returned, or to a caller that called
\* it by itself
DownloadReturn(p, path, requests) ==
    LET returned == Event("download_whatsapp_document", "", "return", path)
    IN  /\ IF message[p] = None
           THEN /\ Traced(p, requests \o << returned >>)
                /\ local_file_path' = [local_file_path EXCEPT ![p] = path]
                /\ Goto(p, "Returned")
                /\ UNCHANGED << meetVars, calendarVars, replyVars, intent,
                                folder_id, uploaded, calls, failed, response,
                                responded, pool0, poolAtReceive, pairVars >>
           ELSE /\ Traced(p, requests \o
                            << returned, Event("generate_response", path, "", "") >>)
                /\ EnterWith(p, path)
        /\ UNCHANGED << wa_id, name, message_body, message, document, chatVars >>

\* an exception of class c in download_whatsapp_document, after these
\* requests: except Exception returns None
DownloadRaise(p, c, requests) ==
    /\ FirstMatch(DownloadTry, c) = "DL_error"
    /\ DownloadReturn(p, NoneStr, requests)

\* _handle_text_message: generate_response with no attachment path
HandleText(p) ==
    /\ pc[p] = "PW_dispatch"
    /\ message[p][1].document = None
    /\ Traced(p, << Event("generate_response", NoneStr, "", "") >>)
    /\ EnterWith(p, NoneStr)
    /\ UNCHANGED << wa_id, name, message_body, message, document, media_url,
                    chatVars >>

\* _handle_document_message: the download first
HandleDocument(p) ==
    /\ pc[p] = "PW_dispatch"
    /\ message[p][1].document # None
    /\ document' = [document EXCEPT ![p] = message[p][1].document]
    /\ Goto(p, "DL_start")
    /\ UNCHANGED << wa_id, name, message_body, message, media_url, trace,
                    chatVars, pipelineVars >>

\* download_whatsapp_document called by itself
DownloadCall(p) ==
    /\ \A q \in Procs : pc[q] = "Idle"
    /\ \E d \in Documents : document' = [document EXCEPT ![p] = Some(d)]
    /\ Goto(p, "DL_start")
    /\ UNCHANGED << wa_id, name, message_body, message, media_url, trace,
                    chatVars, pipelineVars >>

\* a lookup that goes on to the download whatever the media API answered
DownloadLookupGoesOn(p) ==
    /\ pc[p] = "DL_start"
    /\ \E status \in HttpFailures \cup {"200"} :
           Traced(p, << Event("GET", MediaApiUrl(document[p][1].id), status, "") >>)
    /\ media_url' = [media_url EXCEPT ![p] = StoredUrl]
    /\ Goto(p, "DL_get")
    /\ UNCHANGED << wa_id, name, message_body, message, document, chatVars,
                    pipelineVars >>

\* the media_url of the payload, or the lookup of the media id
DownloadLookup(p) ==
    LET media_id == document[p][1].id
        lookup == MediaApiUrl(media_id)
    IN  /\ pc[p] = "DL_start"
        /\ IF Truthy(document[p][1].media_url)
           THEN /\ media_url' = [media_url EXCEPT ![p] = document[p][1].media_url]
                /\ Goto(p, "DL_get")
                /\ UNCHANGED << wa_id, name, message_body, message, document,
                                trace, chatVars, pipelineVars >>
           ELSE IF ~Truthy(media_id)
           THEN /\ DownloadReturn(p, NoneStr, << >>)
                /\ UNCHANGED media_url
           ELSE \/ \E c \in RequestsRaises :
                       /\ DownloadRaise(p, c, << Event("GET", lookup, "raise", "") >>)
                       /\ UNCHANGED media_url
                \/ \E status \in HttpFailures :
                       /\ DownloadReturn(p, NoneStr,
                                         << Event("GET", lookup, status, "") >>)
                       /\ UNCHANGED media_url
                \* r.json() raises
                \/ /\ DownloadRaise(p, "ValueError",
                                    << Event("GET", lookup, "200", NotJson) >>)
                   /\ UNCHANGED media_url
                \/ \E url \in LookupBodies :
                       /\ Traced(p, << Event("GET", lookup, "200", url) >>)
                       /\ media_url' = [media_url EXCEPT ![p] = url]
                       /\ Goto(p, "DL_get")
                       /\ UNCHANGED << wa_id, name, message_body, message,
                                       document, chatVars, pipelineVars >>

\* the download request and the temporary file
DownloadGet(p) ==
    LET file_name == document[p][1].filename
        url == media_url[p]
    IN  /\ pc[p] = "DL_get"
        /\ UNCHANGED media_url
        /\ IF url = NoneStr
           THEN \* requests.get(None) raises before anything is sent
                DownloadRaise(p, "MissingSchema",
                              << Event("GET", url, "raise", "") >>)
           ELSE \/ \E c \in RequestsRaises :
                       DownloadRaise(p, c, << Event("GET", url, "raise", "") >>)
                \/ \E status \in HttpFailures :
                       DownloadReturn(p, NoneStr, << Event("GET", url, status, "") >>)
                \/ IF file_name = NoneStr
                   THEN \* os.path.join(temp_dir, None)
                        DownloadRaise(p, "TypeError",
                                      << Event("GET", url, "200", "") >>)
                   ELSE \/ \E c \in PoolIORaises :
                               DownloadRaise(p, c, << Event("GET", url, "200", "") >>)
                        \/ DownloadReturn(p, TempPath(file_name),
                                          << Event("GET", url, "200", "") >>)

\* where the "**" that closes a pair opened before k starts: the first one
\* at or after k on the same line, 0 when there is none
ClosingStars(s, k) ==
    LET found == {j \in k..Len(s) :
                     /\ StartsAt(s, j, "**")
                     /\ \A m \in k..(j - 1) : CharAt(s, m) # "\n"}
    IN  IF found = {} THEN 0
        ELSE CHOOSE j \in found : \A other \in found : j <= other

RECURSIVE StarSub(_, _)
\* re.sub(r"\*\*(.*?)\*\*", r"*\1*", s) from position i on: the leftmost
\* "**" that has a closing one, the nearest closing one
StarSub(s, i) ==
    LET stars == {k \in i..Len(s) : StartsAt(s, k, "**")}
        opens == {k \in stars : ClosingStars(s, k + 2) # 0}
    IN  IF opens = {} THEN From(s, i)
        ELSE LET k == CHOOSE o \in opens : \A other \in opens : o <= other
                 j == ClosingStars(s, k + 2)
             IN  SubSeq(s, i, k - 1) \o "*" \o SubSeq(s, k + 2, j - 1) \o "*"
                     \o StarSub(s, j + 2)

\* process_text_for_whatsapp; the bracket pair its first pattern removes is
\* outside the characters of the texts here
process_text_for_whatsapp(text) == StarSub(Strip(text), 1)

\* what requests.post and raise_for_status raise
SendRaises == {"Timeout", "ConnectionError", "HTTPError"}

\* what send_message returns
SendStatus(target) ==
    CASE target = "SM_timeout" -> "408"
      [] target = "SM_failed" -> "500"
      [] OTHER -> "raised"

\* a send that is tried again after a timeout
SendResponseRetry(p) ==
    /\ pc[p] = "Responded"
    /\ message[p] # None
    /\ \E text \in {process_text_for_whatsapp(response[p])},
          status \in {"200", "408"} :
           /\ Traced(p, << Event("POST", RECIPIENT_WAID, status, text) >>)
           /\ Goto(p, IF status = "408" THEN "Responded" ELSE "Sent")
    /\ UNCHANGED << wa_id, name, message_body, message, document, media_url,
                    chatVars, pipelineVars >>

\* _send_whatsapp_response and send_message: one POST, whose outcome
\* process_whatsapp_message does not look at
SendResponse(p) ==
    /\ pc[p] = "Responded"
    /\ message[p] # None
    /\ \E text \in {process_text_for_whatsapp(response[p])},
          status \in {"200"} \cup
                     {SendStatus(FirstMatch(SendTry, c)) : c \in SendRaises} :
           Traced(p, << Event("POST", RECIPIENT_WAID, status, text) >>)
    /\ Goto(p, "Sent")
    /\ UNCHANGED << wa_id, name, message_body, message, document, media_url,
                    chatVars, pipelineVars >>

\* one inbound message from the webhook to the send
NextWebhook ==
    \E p \in Procs :
        \/ ProcessMessage(p)
        \/ HandleText(p)
        \/ HandleDocument(p)
        \/ DownloadLookup(p)
        \/ DownloadGet(p)
        \/ Handle(p)
        \/ SendResponse(p)

SpecWebhook == Init /\ [][NextWebhook]_vars

\* download_whatsapp_document called by itself, once
NextDownload ==
    \E p \in Procs :
        \/ DownloadCall(p)
        \/ DownloadLookup(p)
        \/ DownloadGet(p)

SpecDownload == Init /\ [][NextDownload]_vars

(***************************************************************************)
(* Two runs of generate_response side by side: the same attachment path,   *)
(* the same pool file to start from, the same outcome of every external    *)
(* call and file operation, another sender.  The runs take their steps in  *)
(* turn, run 1 first; each has its own pool file, poolFile being the one   *)
(* of the run whose turn it is and poolOther the other one.                *)
(***************************************************************************)
\* where run p is and what its functions hold, the response aside
Locals(p) ==
    << pc[p], caller[p], local_file_path[p], intent_response[p], intent[p],
       folder_id[p], calls[p], responded[p], fh[p], links[p], link[p],
       meet_link[p], extracted_text[p], event_details[p], event[p],
       scheduled_event[p], uploaded[p], failed[p] >>

\* the two runs have taken the same steps with the same outcomes
Synced == Locals(1) = Locals(2)

\* generate_response(message_body, wa_id, name, local_file_path) for run p:
\* run 2 gets the attachment path of run 1 and another sender
PairEnter(p) ==
    /\ pc[p] = "Idle"
    /\ IF p = 1
       THEN /\ pc[2] = "Idle"
            /\ \E u \in Users :
                   /\ wa_id' = [wa_id EXCEPT ![p] = u]
                   /\ name' = [name EXCEPT ![p] = "Student " \o u]
            /\ \E path \in FilePaths : EnterWith(p, path)
       ELSE /\ pc[1] = "GR_classify"
            /\ \E u \in Users \ {wa_id[1]} :
                   /\ wa_id' = [wa_id EXCEPT ![p] = u]
                   /\ name' = [name EXCEPT ![p] = "Student " \o u]
            /\ EnterWith(p, local_file_path[1])
    /\ UNCHANGED << message_body, message, document, media_url, trace,
                    threads, thread >>

\* a step of the run whose turn it is: run 1 when the runs are level, run 2
\* to draw level, with the outcome run 1 had
PairStep(p) ==
    /\ turn = p
    /\ pc[2] # "Idle"
    /\ IF p = 1 THEN Synced ELSE ~Synced
    /\ Handle(p)
    /\ p = 2 => Synced'

\* the other run's pool file is put in place
PairSwitch ==
    /\ pc[2] # "Idle"
    /\ IF turn = 1 THEN ~Synced ELSE Synced
    /\ turn' = 3 - turn
    /\ poolFile' = poolOther
    /\ poolOther' = poolFile
    /\ UNCHANGED << pc, caller, fh, links, link, meet_link, issued, storeFault,
                    raced, calendarVars, replyVars, branchVars, calls, failed,
                    response, responded, pool0, poolAtReceive, inboundVars >>

NextPair ==
    \/ \E p \in Procs : PairEnter(p)
    \/ \E p \in Procs : PairStep(p)
    \/ PairSwitch

SpecPair == Init /\ [][NextPair]_vars

(***************************************************************************)
(* The claims.                                                             *)
(***************************************************************************)
IntentLabels == {"meet", "calendar", "upload", "feedback"}

\* C1: for every inbound message and every outcome of the external calls
\* made for it, generate_response returns exactly once, what it returns is
\* a string, no exception leaves it, and a message in flight always has a
\* next step (at SC_times the step is BuildEvent, whose cases cover every
\* value of the details).
C1_AlwaysResponds ==
    \A p \in Procs :
        /\ pc[p] # "Raised"
        /\ responded[p] <= 1
        /\ pc[p] = "Responded" => responded[p] = 1 /\ response[p] # NoneStr
        /\ pc[p] \notin Quiescent =>
               /\ responded[p] = 0
               /\ pc[p] = "SC_times" \/ ENABLED Handle(p)

\* a message answered after the pool file and the fallback both raised
C1_Witness ==
    \E p \in Procs :
        /\ pc[p] = "Responded"
        /\ {"pool", "fallback"} \subseteq failed[p]
        /\ response[p] = "**Google Meet Link:** " \o MeetError

NoRepeat(ls) == \A i, j \in 1..Len(ls) : ls[i] = ls[j] => i = j

\* two calls have returned the same link of the pool
DoubleIssue(p, q) ==
    /\ p # q
    /\ pc[p] = "Returned"
    /\ pc[q] = "Returned"
    /\ meet_link[p].src = "pool"
    /\ meet_link[q] = meet_link[p]

\* C3: two concurrent generate_meet_link calls can return the same link of
\* a pool that holds it once (C3_Witness), and they do so only when one of
\* them read the pool file while the other was between its read and its
\* close.
C3_DoubleIssueOnlyByRace ==
    \A p, q \in Procs :
        (DoubleIssue(p, q) /\ NoRepeat(LinksOf(pool0))) => raced

\* both calls returned A from the pool [A, B], and no file operation raised
C3_Witness ==
    \E p, q \in Procs :
        /\ DoubleIssue(p, q)
        /\ LinksOf(pool0) = << "A", "B" >>
        /\ meet_link[p].text = "A"
        /\ ~storeFault

C5_NoGuessOnFailure ==
    \A p \in Procs :
        "intent" \in failed[p] =>
            /\ intent[p] = NoneStr
            /\ pc[p] \in {"GR_intent_error", "Responded"}
            /\ calls[p] = << "intent" >>
            /\ poolFile = poolAtReceive[p]
            /\ uploaded[p] = None
            /\ event_details[p] = None
            /\ event[p] = None
            /\ meet_link[p].src = "unset"
            /\ pc[p] = "Responded" =>
                   response[p] \notin {NoneStr, ThankYou, NoFile, CouldNotExtract,
                                       FailedToSchedule}

\* a message whose intent call raised, answered
C5_Witness ==
    \E p \in Procs :
        /\ pc[p] = "Responded"
        /\ "intent" \in failed[p]
        /\ calls[p] = << "intent" >>

\* C6 as stated: on a classification failure the response is the "did not
\* understand" text of an unrecognized intent.
C6_Original ==
    \A p \in Procs :
        (pc[p] = "Responded" /\ "intent" \in failed[p]) =>
            response[p] = DidNotUnderstand

\* C6, amended: on a classification failure the response is the fixed text
\* "Could not determine the intent of your message.", which is not the
\* "did not understand" text returned for an unrecognized intent.
C6_FailureText ==
    \A p \in Procs :
        /\ (pc[p] = "Responded" /\ "intent" \in failed[p]) =>
               response[p] = CouldNotDetermine /\ response[p] # DidNotUnderstand
        /\ (pc[p] = "Responded" /\ intent[p] # NoneStr
                /\ intent[p] \notin IntentLabels) =>
               response[p] = DidNotUnderstand

\* a classification failure answered with its own text
C6_Witness ==
    \E p \in Procs :
        /\ pc[p] = "Responded"
        /\ "intent" \in failed[p]
        /\ response[p] = CouldNotDetermine

\* p is in schedule_google_calendar_event or has been through it
InSchedule(p) ==
    \/ pc[p] \in {"SC_setup", "SC_times", "SC_insert", "SC_parse_error",
                  "SC_none", "SC_http_error", "SC_error", "GR_calendar_respond"}
    \/ "calendar_insert" \in SeqRange(calls[p])
    \/ failed[p] \cap {"schedule_setup", "parse", "insert", "no_date"} # {}

\* C7: for a calendar message the scheduling function is entered only when
\* the extraction succeeded and gave a date; when the extraction call fails
\* the extractor returns None, and then, as when the date is absent, the
\* response is the "Could not extract valid event details" text and no
\* event is inserted.
C7_ScheduleOnlyWithDate ==
    \A p \in Procs :
        /\ InSchedule(p) =>
               /\ event_details[p] # None
               /\ event_details[p][1].date # NoneStr
               /\ "extract" \notin failed[p]
        /\ ("extract" \in failed[p] /\ pc[p] # "EX_error") => event_details[p] = None
        /\ (/\ pc[p] = "Responded"
            /\ intent[p] = "calendar"
            /\ \/ event_details[p] = None
               \/ event_details[p][1].date = NoneStr) =>
               /\ response[p] = CouldNotExtract
               /\ calls[p] = << "intent", "extract" >>
               /\ event[p] = None
               /\ scheduled_event[p] = None

\* a calendar message whose extraction call raised, answered
C7_Witness ==
    \E p \in Procs :
        /\ pc[p] = "Responded"
        /\ intent[p] = "calendar"
        /\ "extract" \in failed[p]
        /\ response[p] = CouldNotExtract

\* C8 as stated: for details with a date and an explicit time the event's
\* start and end are the same, carry the time zone Asia/Kolkata, and give
\* the date and time with a colon in the offset, 2025-03-10 with 09:00 AM
\* being "2025-03-10T09:00:00+05:30".
C8_Original ==
    \A p \in Procs :
        (event[p] # None /\ event_details[p][1].time # "All Day") =>
            LET start == event[p][1].start
            IN  /\ event[p][1].end = start
                /\ start.timeZone = "Asia/Kolkata"
                /\ Len(start.dateTime) = 25
                /\ SubSeq(start.dateTime, 20, 25) = "+05:30"
                /\ (/\ event_details[p][1].date = "2025-03-10"
                    /\ event_details[p][1].time = "09:00 AM") =>
                       start.dateTime = "2025-03-10T09:00:00+05:30"

\* C9: for details with a date and the time "All Day" the event's start
\* and end are both the structure {date: that date}, with no date-time and
\* no time zone.
C9_AllDayIsDateOnly ==
    \A p \in Procs :
        (event[p] # None /\ event_details[p][1].time = "All Day") =>
            /\ event[p][1].start = [date |-> event_details[p][1].date]
            /\ event[p][1].end = [date |-> event_details[p][1].date]
            /\ DOMAIN event[p][1].start = {"date"}

\* an all-day event for 2025-03-10, its body built
C9_Witness ==
    \E p \in Procs :
        /\ event[p] # None
        /\ event_details[p][1].time = "All Day"
        /\ event[p][1].start = [date |-> "2025-03-10"]
        /\ "calendar_insert" \in SeqRange(calls[p])

\* the failures of schedule_google_calendar_event
ScheduleFailures == {"schedule_setup", "parse", "insert"}

\* C10: when the calendar call raises, or the date and time do not parse,
\* schedule_google_calendar_event returns None and generate_response
\* returns the scheduling-failure text; after a parse failure no insert is
\* attempted.
C10_SchedulingFailure ==
    \A p \in Procs :
        /\ (failed[p] \cap ScheduleFailures # {}
                /\ pc[p] \in {"GR_calendar_respond", "Responded"}) =>
               scheduled_event[p] = None
        /\ (failed[p] \cap ScheduleFailures # {} /\ pc[p] = "Responded") =>
               response[p] = FailedToSchedule
        /\ "parse" \in failed[p] => "calendar_insert" \notin SeqRange(calls[p])

\* a date and time that did not parse, answered with the failure text
C10_Witness ==
    \E p \in Procs :
        /\ pc[p] = "Responded"
        /\ "parse" \in failed[p]
        /\ event_details[p][1].date = "2025-02-30"
        /\ response[p] = FailedToSchedule

\* sub occurs in s
Contains(s, sub) == \E i \in 1..(Len(s) - Len(sub) + 1) : StartsAt(s, i, sub)

\* C11: when a message is classified as calendar, the extraction gives a
\* date and the insert succeeds, the response contains "Reminder Scheduled"
\* and the event link the calendar call returned.
C11_ReminderScheduled ==
    \A p \in Procs :
        (pc[p] = "Responded" /\ scheduled_event[p] # None) =>
            /\ intent[p] = "calendar"
            /\ event_details[p][1].date # NoneStr
            /\ Contains(response[p], "Reminder Scheduled")
            /\ scheduled_event[p][1].event_link \in EventLinks
            /\ Contains(response[p], scheduled_event[p][1].event_link)

\* a calendar message answered after its event was inserted
C11_Witness ==
    \E p \in Procs :
        /\ pc[p] = "Responded"
        /\ scheduled_event[p] # None
        /\ calls[p] = << "intent", "extract", "calendar_insert" >>
        /\ Contains(response[p], "https://www.google.com/calendar/event?eid=1")

\* C12: for an upload message with no attachment path the response is the
\* "No file available" text, and neither the folder call nor the upload is
\* made.
C12_NoFileNoUpload ==
    \A p \in Procs :
        (intent[p] = "upload" /\ local_file_path[p] = NoneStr) =>
            /\ calls[p] = << "intent" >>
            /\ uploaded[p] = None
            /\ folder_id[p] = NoneStr
            /\ pc[p] \in {"GR_dispatch", "Responded"}
            /\ pc[p] = "Responded" => response[p] = NoFile

\* an upload message without a file, answered
C12_Witness ==
    \E p \in Procs :
        /\ pc[p] = "Responded"
        /\ intent[p] = "upload"
        /\ local_file_path[p] = NoneStr
        /\ response[p] = NoFile

\* the folder call of p's message answered with a label FOLDER_MAP does not
\* hold, and the upload request was built
UnrecognizedFolder(p) ==
    /\ intent[p] = "upload"
    /\ local_file_path[p] # NoneStr
    /\ "folder" \in SeqRange(calls[p])
    /\ "folder" \notin failed[p]
    /\ folder_id[p] = NoneStr
    /\ uploaded[p] # None

\* C13 as stated: for an upload message with an attachment whose folder
\* label is outside the taxonomy, the upload is made and the file's parent
\* folder is SHARED_FOLDER_ID.
C13_Original ==
    \A p \in Procs :
        UnrecognizedFolder(p) =>
            /\ uploaded[p][1].parents = << SHARED_FOLDER_ID >>
            /\ pc[p] = "Responded" /\ failed[p] = {} =>
                   /\ "upload" \in SeqRange(calls[p])
                   /\ Contains(response[p], SHARED_FOLDER_ID)

\* how many times site occurs in a sequence of calls
RECURSIVE Count(_, _)
Count(q, site) ==
    IF q = << >> THEN 0
    ELSE (IF Head(q) = site THEN 1 ELSE 0) + Count(Tail(q), site)

\* C14: when the folder call fails for an upload message with an
\* attachment, upload_file_response is still entered, once, with no folder:
\* the request it builds has no parent folder, the Drive request is made
\* once unless the function's own set-up raised, and the response is the
\* upload's, never a folder failure.
C14_FolderFailureNoBlock ==
    \A p \in Procs :
        "folder" \in failed[p] =>
            /\ local_file_path[p] # NoneStr
            /\ folder_id[p] = NoneStr
            /\ Count(calls[p], "folder") = 1
            /\ Count(calls[p], "upload") <= 1
            /\ pc[p] \in {"GR_folder_error", "UP_setup", "UP_create", "UP_error",
                          "Responded"}
            /\ uploaded[p] # None => uploaded[p][1].parents = << >>
            /\ pc[p] = "Responded" =>
                   \/ /\ Count(calls[p], "upload") = 1
                      /\ failed[p] = {"folder"}
                      /\ \E id \in FileIds : response[p] = UploadedText(id, NoneStr)
                   \/ /\ Count(calls[p], "upload") = 1
                      /\ failed[p] \cap DriveRaises # {}
                      /\ Contains(response[p], "Error uploading file: ")
                   \/ /\ Count(calls[p], "upload") = 0
                      /\ failed[p] \cap DriveSetupRaises # {}
                      /\ Contains(response[p], "Error uploading file: ")

\* the folder call raised and the file was uploaded, into no folder
C14_Witness ==
    \E p \in Procs :
        /\ pc[p] = "Responded"
        /\ failed[p] = {"folder"}
        /\ calls[p] = << "intent", "folder", "upload" >>
        /\ uploaded[p][1].parents = << >>
        /\ response[p] = UploadedText("file-1", NoneStr)

\* C15 as stated: no response holds the text of an exception an external
\* call raised, so that the response does not depend on which exception it
\* was.
C15_Original ==
    \A p \in Procs :
        pc[p] = "Responded" =>
            \A c \in ExcClasses : ~Contains(response[p], ExcText(c))

\* the pool file had no link when p's message came in: it was absent,
\* empty, or held blank lines only
NoLinkAtCall(p) == LinksOf(poolAtReceive[p]) = << >>

\* C16: generate_meet_link never raises: when the pool file is absent,
\* holds no link or cannot be accessed, the fallback is entered and a call
\* that succeeds returns its link; when the fallback gives no link or
\* raises, one of the three fixed failure strings is returned.
C16_IssueLinkNeverRaises ==
    \A p \in Procs :
        /\ pc[p] # "Raised"
        /\ (NoLinkAtCall(p) \/ "pool" \in failed[p]) =>
               meet_link[p].src # "pool"
        /\ "pool" \in failed[p] =>
               /\ "pool_open" \in SeqRange(calls[p])
               /\ pc[p] \in {"ML_fallback", "ML_http_error", "ML_error",
                             "GR_meet_respond", "Responded", "Returned"}
        /\ meet_link[p].src = "fallback" =>
               /\ meet_link[p].text \in FallbackUris
               /\ "fallback_insert" \in SeqRange(calls[p])
               /\ "fallback" \notin failed[p]
        /\ meet_link[p].src = "failed" =>
               /\ meet_link[p].text \in {NoMeetLink, MeetHttpError, MeetError}
               /\ "fallback" \in failed[p]
        /\ (pc[p] = "Responded" /\ intent[p] = "meet") =>
               /\ meet_link[p].src # "unset"
               /\ response[p] = "**Google Meet Link:** " \o meet_link[p].text

\* the pool file could not be opened and the fallback gave its link
C16_Witness ==
    \E p \in Procs :
        /\ pc[p] = "Responded"
        /\ ~NoLinkAtCall(p)
        /\ "pool" \in failed[p]
        /\ storeFault
        /\ calls[p] = << "intent", "pool_open", "fallback_insert" >>
        /\ meet_link[p] = [src |-> "fallback", text |-> "https://meet.google.com/new"]

\* C17: when generate_meet_link takes the fallback because the pool file is
\* absent or holds no link, the pool file stays as it was, whether the
\* fallback gives a link or fails.
C17_FallbackNotWrittenBack ==
    \A p \in Procs :
        (/\ NoLinkAtCall(p)
         /\ \/ pc[p] \in {"ML_fallback", "ML_http_error", "ML_error"}
            \/ meet_link[p].src \in {"fallback", "failed"}) =>
            /\ poolFile = poolAtReceive[p]
            /\ LinksOf(poolFile) = << >>

\* the fallback gave a link for a pool file of blank lines, which still
\* holds them
C17_Witness ==
    \E p \in Procs :
        /\ pc[p] = "Responded"
        /\ poolAtReceive[p] \notin {NoneStr, ""}
        /\ NoLinkAtCall(p)
        /\ meet_link[p].src = "fallback"
        /\ poolFile = poolAtReceive[p]

\* p's call of extract_event_details has returned a dictionary
Extracted(p) == event_details[p] # None /\ extracted_text[p] # NoneStr

\* C18 as stated, over the replies put together from the five lines: no
\* reply makes the extraction raise, a field whose line is left out or is
\* not as asked has its sentinel ("Not provided", no date, "All Day"), and
\* every other field has the value of its line.
C18_Original ==
    \A p \in Procs :
        /\ pc[p] # "Raised"
        /\ Extracted(p) =>
               LET text == extracted_text[p]
                   details == event_details[p][1]
               IN  /\ details.title =
                          (IF Contains(text, "Title: Standup") THEN "Standup"
                           ELSE "Not provided")
                   /\ details.date =
                          (IF Contains(text, "Date: 2025-03-10") THEN "2025-03-10"
                           ELSE IF Contains(text, "Date: 2025-02-30") THEN "2025-02-30"
                           ELSE NoneStr)
                   /\ details.time =
                          (IF Contains(text, "Time: 09:00 AM") THEN "09:00 AM"
                           ELSE "All Day")
                   /\ details.location =
                          (IF Contains(text, "Location: Office") THEN "Office"
                           ELSE "Not provided")
                   /\ details.notes =
                          (IF Contains(text, "Notes: Bring laptop") THEN "Bring laptop"
                           ELSE "Not provided")

\* C19: the date of the record is absent exactly when the Date pattern
\* finds no match in the reply (no Date line, or a value that is neither
\* dddd-dd-dd nor the sentinel) or matches "Not provided"; a matched date
\* is the record's date character for character, whether or not the
\* calendar has such a day.
C19_DatePassedThrough ==
    \A p \in Procs :
        Extracted(p) =>
            LET text == extracted_text[p]
                date == event_details[p][1].date
                date_match == Search("Date:", text)
            IN  /\ date = NoneStr <=> date_match \in {None, Some("Not provided")}
                /\ date # NoneStr =>
                       /\ date_match = Some(date)
                       /\ Contains(text, "Date: " \o date)
                /\ ~Contains(text, "Date:") => date = NoneStr
                /\ Contains(text, "Date: Not provided") => date = NoneStr
                /\ Contains(text, "Date: tomorrow") => date = NoneStr
                /\ Contains(text, "Date: 2025-03-10") => date = "2025-03-10"
                /\ Contains(text, "Date: 2025-02-30") => date = "2025-02-30"

\* the thirtieth of February, passed through as the record's date
C19_Witness ==
    \E p \in Procs :
        /\ pc[p] = "Returned"
        /\ Extracted(p)
        /\ Contains(extracted_text[p], "Date: 2025-02-30")
        /\ event_details[p][1].date = "2025-02-30"

\* c is the letter l in either case
CaseEq(c, l) ==
    \/ c = l
    \/ \E k \in 1..26 :
           /\ CharAt("abcdefghijklmnopqrstuvwxyz", k) = l
           /\ CharAt("ABCDEFGHIJKLMNOPQRSTUVWXYZ", k) = c

\* reply is label but for white space around it and the case of its letters
Reads(reply, label) ==
    \E i \in 1..(Len(reply) + 1) :
        /\ i + Len(label) - 1 <= Len(reply)
        /\ \A k \in 1..(i - 1) : CharAt(reply, k) \in Whitespace
        /\ \A k \in (i + Len(label))..Len(reply) : CharAt(reply, k) \in Whitespace
        /\ \A k \in 1..Len(label) :
               CaseEq(CharAt(reply, i + k - 1), CharAt(label, k))

C21_TurnKeptOnFailure ==
    [][\A p \in Procs :
           (pc[p] = "CH_error" /\ pc'[p] # "CH_error") =>
               /\ threads'[wa_id[p]] =
                      Append(GetOrCreate(wa_id[p]), Turn("user", message_body[p]))
               /\ \A u \in Users \ {wa_id[p]} : threads'[u] = threads[u]
               /\ pc'[p] = "Responded"
               /\ response'[p] = Apology
               /\ responded'[p] = 1]_vars

\* a failed exchange of a sender whose history held an earlier exchange
C21_Witness ==
    \E p \in Procs :
        /\ pc[p] = "Responded"
        /\ "chat" \in failed[p]
        /\ response[p] = Apology
        /\ Len(threads[wa_id[p]]) >= 4
        /\ threads[wa_id[p]][Len(threads[wa_id[p]])] = Turn("user", message_body[p])

\* the calls of requests.get made for p, in order
Gets(p) == SelectSeq(trace[p], LAMBDA e : e.call = "GET")

Lost(l) ==
    /\ l \in SeqRange(LinksOf(pool0))
    /\ l \notin SeqRange(LinksOf(poolFile))
    /\ \A p \in Procs : meet_link[p].text # l

\* C23: two concurrent generate_meet_link calls can lose a link; when both
\* have returned and no pool file operation raised, a link of the initial
\* pool is lost only if one call read the pool file while the other was
\* between its read and its close.
C23_LostOnlyByRace ==
    (/\ \A p \in Procs : pc[p] = "Returned"
     /\ ~storeFault
     /\ \E l \in SeqRange(LinksOf(pool0)) : Lost(l)) => raced

\* both calls have returned, no file operation raised, and the link "C" of
\* the initial pool is in the pool file no more and was returned by neither
C23_Witness ==
    /\ \A p \in Procs : pc[p] = "Returned"
    /\ ~storeFault
    /\ raced
    /\ LinksOf(pool0) = << "A", "LINK", "C" >>
    /\ Lost("C")
    /\ \A p \in Procs : meet_link[p].src = "pool"

\* generate_meet_link has returned for p
LinkCallOver(p) ==
    /\ meet_link[p].src # "unset"
    /\ pc[p] \in {"GR_meet_respond", "Responded", "Returned"}

\* C24: the rewrite of the pool is atomic: after a generate_meet_link call,
\* also one in which a file operation fails partway through the rewrite, the
\* links of the pool file are those from before the call, or those without
\* their first one, and the first one is gone only if the call returned it.
C24_Original ==
    \A p \in Procs :
        LinkCallOver(p) =>
            LET before == LinksOf(poolAtReceive[p])
                after == LinksOf(poolFile)
            IN  \/ after = before
                \/ /\ before # << >>
                   /\ after = Tail(before)
                   /\ meet_link[p] = [src |-> "pool", text |-> Head(before)]

\* the external call sites of a message
ExternalSites ==
    {"intent", "folder", "upload", "extract", "calendar_insert",
     "fallback_insert"}

\* the external calls that failed for p: the upload's are there by the
\* class raised
ExternalFailures(p) ==
    failed[p] \cap ({"intent", "folder", "extract", "insert", "fallback"}
                      \cup ExcClasses)

\* the responses that report a failure
FailureResponse(text) ==
    \/ text \in {CouldNotDetermine, CouldNotExtract, FailedToSchedule}
    \/ text \in {"**Google Meet Link:** " \o t :
                    t \in {NoMeetLink, MeetHttpError, MeetError}}
    \/ StartsAt(text, 1, "Error uploading file: ")

\* each call site at most once, and one response
NoRetry(p) ==
    /\ \A site \in ExternalSites : Count(calls[p], site) <= 1
    /\ responded[p] <= 1
    /\ pc[p] = "Responded" => responded[p] = 1

\* C25 as stated: no call site is executed twice for a message, and a
\* message with a failed external call gets one response, a failure response.
C25_Original ==
    \A p \in Procs :
        /\ NoRetry(p)
        /\ (pc[p] = "Responded" /\ ExternalFailures(p) # {}) =>
               FailureResponse(response[p])

\* C25 (amended): no call site is executed twice for a message, and a
\* message with a failed external call gets one response, which is a failure
\* response unless the call that failed is the folder classification: the
\* upload then goes on with no folder, and the response is the upload's.
C25_NoRetry ==
    \A p \in Procs :
        /\ NoRetry(p)
        /\ (pc[p] = "Responded" /\ ExternalFailures(p) \ {"folder"} # {}) =>
               FailureResponse(response[p])
        /\ (pc[p] = "Responded" /\ ExternalFailures(p) = {"folder"}) =>
               /\ folder_id[p] = NoneStr
               /\ Count(calls[p], "upload") = 1
               /\ \E id \in FileIds : response[p] = UploadedText(id, NoneStr)

\* a calendar message whose insert raised: one insert, one response, the
\* scheduling failure text
C25_Witness ==
    \E p \in Procs :
        /\ pc[p] = "Responded"
        /\ failed[p] = {"insert"}
        /\ calls[p] = << "intent", "extract", "calendar_insert" >>
        /\ responded[p] = 1
        /\ response[p] = FailedToSchedule

\* the positions inside each handler, and the call sites of each
HandlerLabels(h) ==
    CASE h = "upload" ->
             {"GR_folder", "GR_folder_error", "UP_setup", "UP_create", "UP_error"}
      [] h = "meet" ->
             {"ML_open", "ML_read", "ML_pop", "ML_truncate", "ML_write",
              "ML_fallback", "ML_http_error", "ML_error", "GR_meet_respond"}
      [] h = "calendar" ->
             {"EX_call", "EX_error", "GR_check_details", "SC_setup", "SC_times",
              "SC_insert", "SC_parse_error", "SC_none", "SC_http_error",
              "SC_error", "GR_calendar_respond"}
      [] OTHER -> {}
HandlerSites(h) ==
    CASE h = "upload" -> {"folder", "upload"}
      [] h = "meet" -> {"pool_open", "fallback_insert"}
      [] h = "calendar" -> {"extract", "calendar_insert"}
      [] OTHER -> {}

\* the first position of site in q, 0 when it is not there
FirstAt(q, site) ==
    IF site \notin SeqRange(q) THEN 0
    ELSE CHOOSE i \in 1..Len(q) : q[i] = site /\ \A j \in 1..(i - 1) : q[j] # site

\* C26: for a message, the steps and the calls made are those of one
\* handler, the one of the classified label, and come after the intent call
\* has returned; the folder call comes before the upload, the extraction
\* before the insert; a feedback message is answered with the thank-you
\* text after the intent call alone, with the pool file as it was.
C26_OneHandlerInOrder ==
    \A p \in Procs :
        /\ \A h \in {"upload", "meet", "calendar"} :
               (pc[p] \in HandlerLabels(h)
                \/ SeqRange(calls[p]) \cap HandlerSites(h) # {}) =>
                   /\ intent[p] = h
                   /\ intent_response[p] # NoneStr
                   /\ calls[p][1] = "intent"
                   /\ SeqRange(calls[p]) \subseteq {"intent"} \cup HandlerSites(h)
        /\ "upload" \in SeqRange(calls[p]) =>
               /\ FirstAt(calls[p], "folder") # 0
               /\ FirstAt(calls[p], "folder") < FirstAt(calls[p], "upload")
        /\ "calendar_insert" \in SeqRange(calls[p]) =>
               /\ FirstAt(calls[p], "extract") # 0
               /\ FirstAt(calls[p], "extract") < FirstAt(calls[p], "calendar_insert")
        /\ (pc[p] = "Responded" /\ intent[p] = "feedback") =>
               /\ calls[p] = << "intent" >>
               /\ response[p] = ThankYou
               /\ poolFile = poolAtReceive[p]
               /\ uploaded[p] = None
               /\ scheduled_event[p] = None
               /\ meet_link[p].src = "unset"

\* an upload message answered after the intent call, the folder call and
\* the upload, in that order
C26_Witness ==
    \E p \in Procs :
        /\ pc[p] = "Responded"
        /\ intent[p] = "upload"
        /\ calls[p] = << "intent", "folder", "upload" >>
        /\ failed[p] = {}

\* s is a suffix of t
IsSuffix(s, t) ==
    /\ Len(s) <= Len(t)
    /\ s = SubSeq(t, Len(t) - Len(s) + 1, Len(t))

\* the links of the pool file after p's message, had the pool been changed
\* by a pool issuance alone
PoolAfter(p) ==
    IF meet_link[p].src = "pool"
    THEN Tail(LinksOf(poolAtReceive[p]))
    ELSE LinksOf(poolAtReceive[p])

\* C27: under sequential use, whenever no message is being handled the links
\* of the pool file are a suffix of the links of the initial pool; a message
\* that was given a pool link leaves the pool one link shorter, any other
\* message leaves its links as they were, and a message of another intent
\* than meet leaves the file untouched.
C27_Original ==
    (\A q \in Procs : pc[q] \in Quiescent) =>
        /\ IsSuffix(LinksOf(poolFile), LinksOf(pool0))
        /\ \A p \in Procs :
               pc[p] = "Responded" =>
                   /\ LinksOf(poolFile) = PoolAfter(p)
                   /\ intent[p] # "meet" => poolFile = poolAtReceive[p]

\* the events of p's trace that are calls of `call`
EventsOf(p, call) == SelectSeq(trace[p], LAMBDA e : e.call = call)

\* C29: for a message handled by process_whatsapp_message, generate_response
\* is called once, with no attachment path for a text message and with what
\* download_whatsapp_document returned for a document message; one POST is
\* made, after generate_response has returned, and it is the last thing
\* done, whatever its outcome.
C29_OnePipelineOneSend ==
    \A p \in Procs :
        message[p] # None =>
            LET runs == EventsOf(p, "generate_response")
                posts == EventsOf(p, "POST")
                downloads == EventsOf(p, "download_whatsapp_document")
            IN  /\ Len(runs) <= 1
                /\ Len(posts) <= 1
                /\ pc[p] # "Raised"
                /\ Len(runs) = 1 =>
                       /\ local_file_path[p] = runs[1].arg
                       /\ IF message[p][1].document = None
                          THEN runs[1].arg = NoneStr /\ downloads = << >>
                          ELSE /\ Len(downloads) = 1
                               /\ runs[1].arg = downloads[1].value
                /\ Len(posts) = 1 =>
                       /\ pc[p] = "Sent"
                       /\ trace[p][Len(trace[p])] = posts[1]
                       /\ responded[p] = 1
                       /\ posts[1].arg = RECIPIENT_WAID
                /\ pc[p] = "Sent" => Len(runs) = 1 /\ Len(posts) = 1
                /\ pc[p] = "Responded" => Len(runs) = 1 /\ posts = << >>

\* a document message whose download gave a path, answered once by a POST
\* that timed out
C29_Witness ==
    \E p \in Procs :
        /\ pc[p] = "Sent"
        /\ message[p] # None
        /\ message[p][1].document # None
        /\ local_file_path[p] = "/tmp/notes.txt"
        /\ Len(EventsOf(p, "generate_response")) = 1
        /\ EventsOf(p, "POST")[1].status = "408"

\* C28: two generate_response runs that differ in the sender's id and name
\* alone, with the same attachment path, the same pool file to start from
\* and the same outcomes of the calls, stay alike step by step: whenever
\* they are level their pool files are the same text and so are their
\* responses.
C28_NoPerUserState ==
    (pc[2] # "Idle" /\ Synced) =>
        /\ wa_id[1] # wa_id[2]
        /\ name[1] # name[2]
        /\ response[1] = response[2]
        /\ poolFile = poolOther

\* both runs have answered a meet message with the pool's first link, and
\* each has rewritten its pool file
C28_Witness ==
    /\ pc[1] = "Responded"
    /\ pc[2] = "Responded"
    /\ wa_id[1] # wa_id[2]
    /\ meet_link[1].src = "pool"
    /\ meet_link[2] = meet_link[1]
    /\ poolFile # poolAtReceive[1]
    /\ poolFile = poolOther
    /\ response[1] = response[2]

=============================================================================
